---- MODULE Spec2Model ----
(***************************************************************************)
(* Model of the dungeon generator (src/world.js, src/dynamicLevel.js) and  *)
(* of the laser / power-routing tick (src/unnamed/part_003,                *)
(* src/unnamed/part_000, src/powerManagement.js, src/laserPowerCell.js).   *)
(* Lengths are world pixels, as in the source.                             *)
(***************************************************************************)
EXTENDS Integers, Sequences, FiniteSets, TLC

TILE_SIZE == 64

Min(a, b) == IF a < b THEN a ELSE b
Max(a, b) == IF a > b THEN a ELSE b
Abs(a) == IF a < 0 THEN 0 - a ELSE a

(***************************************************************************)
(* utils.js: SeededRandom, a Lehmer generator.  seed * 16807 does not fit  *)
(* a 32-bit integer, so the product modulo 2^31-1 is computed by Schrage's *)
(* decomposition; the value is the one the source computes in doubles.     *)
(***************************************************************************)
LcgModulus == 2147483647
LcgMultiplier == 16807

\* new SeededRandom(seed), for seed >= 0
SeededRandom(seed) ==
  LET s == seed % LcgModulus
  IN IF s <= 0 THEN s + (LcgModulus - 1) ELSE s

\* the assignment this.seed = (this.seed * 16807) % 2147483647 of random()
NextSeed(s) ==
  LET q == LcgModulus \div LcgMultiplier
      r == LcgModulus % LcgMultiplier
      t == LcgMultiplier * (s % q) - r * (s \div q)
  IN IF t < 0 THEN t + LcgModulus ELSE t

\* Math.floor(((seed - 1) / 2147483646) * k), the number of j in 1..k-1
\* with j * 2147483646 <= x * k, for x = seed - 1
FloorScaled(x, k) ==
  LET m == LcgModulus - 1
      q == m \div k
      r == m % k
  IN Cardinality({j \in 1..(k - 1) : x >= j * q + ((j * r + k - 1) \div k)})

\* randomInt(min, max): the value drawn and the generator state after it
RandomInt(rng, min, max) ==
  LET s == NextSeed(rng)
  IN [rng |-> s, val |-> FloorScaled(s - 1, max - min) + min]

(***************************************************************************)
(* Template catalogs (dungeonGen.js TileLoader).  A tile keeps the fields  *)
(* generation reads: id, size, start, exit and the directions of exits.    *)
(* The catalog is a sequence: filterTiles(predicate) keeps the load order, *)
(* which SelectSeq does.                                                   *)
(***************************************************************************)
Tile(id, w, h, exits, start, exit) ==
  [id |-> id, size |-> <<w, h>>, exits |-> exits, start |-> start, exit |-> exit]

AllDirs == {"N", "E", "S", "W"}

\* createFallbackTiles: the built-in start + exit pair
FallbackTiles ==
  << Tile("start", 4, 4, {"E"}, TRUE, FALSE),
     Tile("exit", 4, 4, {"W"}, FALSE, TRUE) >>

Catalogs ==
  { FallbackTiles,
    \* the four asset files, all rooms 6x6 with every exit
    << Tile("straight", 6, 6, AllDirs, FALSE, FALSE),
       Tile("corner", 6, 6, AllDirs, FALSE, FALSE),
       Tile("start", 6, 6, AllDirs, TRUE, FALSE),
       Tile("exit", 6, 6, {"W"}, FALSE, TRUE) >>,
    \* rooms of different sizes
    << Tile("straight", 8, 4, AllDirs, FALSE, FALSE),
       Tile("corner", 4, 6, AllDirs, FALSE, FALSE),
       Tile("start", 6, 6, AllDirs, TRUE, FALSE),
       Tile("exit", 4, 4, {"W"}, FALSE, TRUE) >>,
    \* a catalog that cannot serve every required exit combination
    << Tile("straight", 6, 4, {"E", "W"}, FALSE, FALSE),
       Tile("start", 4, 4, AllDirs, TRUE, FALSE),
       Tile("exit", 4, 4, {"W"}, FALSE, TRUE) >>,
    \* start.json failed to load
    << Tile("straight", 6, 4, {"E", "W"}, FALSE, FALSE),
       Tile("corner", 4, 4, {"N", "E"}, FALSE, FALSE) >>,
    \* only exit.json loaded
    << Tile("exit", 4, 4, {"W"}, FALSE, TRUE) >> }

(***************************************************************************)
(* world.js WorldManager.  The manager is a record W:                      *)
(*   rooms              the Map rooms / roomGrid, in insertion order       *)
(*   rng                the state of this.rng                              *)
(*   seed, generatedRooms, exitRoomsGenerated, levelConstraints,           *)
(*   levelBounds, levelComplete   the fields of the same names             *)
(*   startRoom          TRUE when this.startRoom is not null               *)
(*   shortfall, topUps  history: a placement found no template; rooms      *)
(*                      placed by ensureMinimumRooms                       *)
(*   negative           history: a room was created at a negative world    *)
(*                      coordinate                                         *)
(*   attempts           history: the calls of generateRoomAt the loops of   *)
(*                      generateFiniteLevel and ensureMinimumRooms made    *)
(***************************************************************************)

\* new WorldRoom(roomData, worldX, worldY, roomX, roomY)
WorldRoom(roomData, worldX, worldY, roomX, roomY) ==
  [id |-> roomData.id, roomX |-> roomX, roomY |-> roomY,
   worldX |-> worldX, worldY |-> worldY,
   width |-> roomData.size[1] * TILE_SIZE,
   height |-> roomData.size[2] * TILE_SIZE,
   exits |-> roomData.exits, isExit |-> FALSE]

\* the state left by the constructor; the generator is seeded from the clock
\* there and initialize replaces it before any draw
NewWorldManager ==
  [rooms |-> << >>, rng |-> 1, seed |-> 0, startRoom |-> FALSE,
   generatedRooms |-> 0, exitRoomsGenerated |-> 0, levelComplete |-> FALSE,
   levelConstraints |-> [maxRooms |-> 10, maxExits |-> 1, maxWidth |-> 4,
                         maxHeight |-> 4, minRooms |-> 5],
   levelBounds |-> [minX |-> 0 - 2, maxX |-> 2, minY |-> 0 - 2, maxY |-> 2],
   shortfall |-> FALSE, topUps |-> 0, negative |-> FALSE, attempts |-> 0]

\* adjustConstraintsForLevel(levelNumber)
AdjustConstraintsForLevel(W, levelNumber) ==
  LET c == [maxRooms |-> Min(6 + levelNumber \div 2, 15),
            maxExits |-> 1,
            maxWidth |-> Min(3 + levelNumber \div 3, 5),
            maxHeight |-> Min(3 + levelNumber \div 3, 5),
            minRooms |-> Min(4 + levelNumber \div 4, 8)]
  IN [W EXCEPT !.levelConstraints = c,
               !.levelBounds = [minX |-> 0, maxX |-> c.maxWidth - 1,
                                minY |-> 0, maxY |-> c.maxHeight - 1]]

\* getRoom(roomX, roomY): TRUE when a room is stored under that key
HasRoom(rooms, x, y) ==
  \E i \in 1..Len(rooms) : rooms[i].roomX = x /\ rooms[i].roomY = y

\* getRoom(roomX, roomY), for a key that is present
GetRoom(rooms, x, y) ==
  rooms[CHOOSE i \in 1..Len(rooms) : rooms[i].roomX = x /\ rooms[i].roomY = y]

\* isWithinLevelBounds(roomX, roomY)
IsWithinLevelBounds(W, x, y) ==
  /\ x >= W.levelBounds.minX /\ x <= W.levelBounds.maxX
  /\ y >= W.levelBounds.minY /\ y <= W.levelBounds.maxY

\* the neighbour list of getValidAdjacentPositions and hasAdjacentRoom:
\* North, South, East, West
AdjacentCells(x, y) ==
  << <<x, y - 1>>, <<x, y + 1>>, <<x + 1, y>>, <<x - 1, y>> >>

\* getValidAdjacentPositions(currentPos, generatedPositions)
GetValidAdjacentPositions(W, currentPos, generatedPositions) ==
  SelectSeq(AdjacentCells(currentPos[1], currentPos[2]),
            LAMBDA pos : /\ pos \notin generatedPositions
                         /\ IsWithinLevelBounds(W, pos[1], pos[2])
                         /\ ~HasRoom(W.rooms, pos[1], pos[2]))

\* a hasAdjacentRoom that accepts every cell
HasAdjacentRoomNoCheck(rooms, x, y) == TRUE

\* hasAdjacentRoom(roomX, roomY)
HasAdjacentRoom(rooms, x, y) ==
  \E k \in 1..4 : HasRoom(rooms, AdjacentCells(x, y)[k][1], AdjacentCells(x, y)[k][2])

\* createRoom(roomData, worldX, worldY, roomX, roomY)
CreateRoom(W, roomData, worldX, worldY, roomX, roomY) ==
  [W EXCEPT !.rooms = Append(@, WorldRoom(roomData, worldX, worldY, roomX, roomY))]

\* getRequiredConnections(roomX, roomY)
GetRequiredConnections(rooms, x, y) ==
  { d \in AllDirs :
      LET dx == IF d = "E" THEN 1 ELSE IF d = "W" THEN 0 - 1 ELSE 0
          dy == IF d = "S" THEN 1 ELSE IF d = "N" THEN 0 - 1 ELSE 0
          opposite == CASE d = "N" -> "S" [] d = "S" -> "N"
                        [] d = "E" -> "W" [] d = "W" -> "E"
      IN /\ HasRoom(rooms, x + dx, y + dy)
         /\ opposite \in GetRoom(rooms, x + dx, y + dy).exits }

\* findSuitableTiles(requiredConnections, allowExit)
FindSuitableTiles(tiles, requiredConnections, allowExit) ==
  SelectSeq(tiles, LAMBDA tile : /\ ~tile.start
                                   /\ ~(tile.exit /\ ~allowExit)
                                   /\ requiredConnections \subseteq tile.exits)

RECURSIVE SumWidth(_)
\* the reduce of getAverageRoomWidth
SumWidth(rooms) ==
  IF rooms = << >> THEN 0 ELSE Head(rooms).width + SumWidth(Tail(rooms))

RECURSIVE SumHeight(_)
\* the reduce of getAverageRoomHeight
SumHeight(rooms) ==
  IF rooms = << >> THEN 0 ELSE Head(rooms).height + SumHeight(Tail(rooms))

\* getAverageRoomWidth()
GetAverageRoomWidth(rooms) ==
  IF Len(rooms) = 0 THEN 6 * TILE_SIZE ELSE SumWidth(rooms) \div Len(rooms)

\* getAverageRoomHeight()
GetAverageRoomHeight(rooms) ==
  IF Len(rooms) = 0 THEN 6 * TILE_SIZE ELSE SumHeight(rooms) \div Len(rooms)

RECURSIVE WidthsLeftOf(_, _, _)
\* the loop "for (x = 0; x < roomX; x++)" of calculateRoomWorldPosition,
\* summed from column x - 1 down to column 0
WidthsLeftOf(rooms, x, roomY) ==
  IF x <= 0 THEN 0
  ELSE (IF HasRoom(rooms, x - 1, roomY)
        THEN GetRoom(rooms, x - 1, roomY).width
        ELSE GetAverageRoomWidth(rooms))
       + WidthsLeftOf(rooms, x - 1, roomY)

RECURSIVE HeightsAbove(_, _, _)
\* the loop "for (y = 0; y < roomY; y++)" of calculateRoomWorldPosition
HeightsAbove(rooms, roomX, y) ==
  IF y <= 0 THEN 0
  ELSE (IF HasRoom(rooms, roomX, y - 1)
        THEN GetRoom(rooms, roomX, y - 1).height
        ELSE GetAverageRoomHeight(rooms))
       + HeightsAbove(rooms, roomX, y - 1)

\* calculateRoomWorldPosition(roomX, roomY); a negative grid coordinate
\* resets the sum to 0
CalculateRoomWorldPosition(rooms, roomX, roomY) ==
  [worldX |-> Max(0, IF roomX < 0 THEN 0 ELSE WidthsLeftOf(rooms, roomX, roomY)),
   worldY |-> Max(0, IF roomY < 0 THEN 0 ELSE HeightsAbove(rooms, roomX, roomY))]

\* adjustAllRoomsPosition(offsetX, offsetY)
AdjustAllRoomsPosition(rooms, offsetX, offsetY) ==
  IF offsetX = 0 /\ offsetY = 0 THEN rooms
  ELSE [i \in 1..Len(rooms) |->
          [rooms[i] EXCEPT !.worldX = @ + offsetX, !.worldY = @ + offsetY]]

\* one iteration of the loop of validateRoomPosition: the position pos
\* after looking at room; proposed is the rectangle computed before the loop
ValidateAgainst(room, pos, proposed, roomWidth, roomHeight, roomX, roomY) ==
  LET left == room.worldX
      right == room.worldX + room.width
      top == room.worldY
      bottom == room.worldY + room.height
      overlapLeft == Max(0, Min(proposed.right, right) - Max(proposed.left, left))
      overlapTop == Max(0, Min(proposed.bottom, bottom) - Max(proposed.top, top))
      hasOverlap == overlapLeft > 0 /\ overlapTop > 0
      isAdjacentHorizontally == Abs(room.roomX - roomX) = 1 /\ room.roomY = roomY
      isAdjacentVertically == Abs(room.roomY - roomY) = 1 /\ room.roomX = roomX
  IN IF room.roomX = roomX /\ room.roomY = roomY THEN pos
     ELSE IF ~hasOverlap THEN pos
     ELSE IF isAdjacentHorizontally \/ isAdjacentVertically
     THEN [worldX |-> IF isAdjacentHorizontally /\ overlapLeft # TILE_SIZE
                      THEN (IF room.roomX < roomX THEN right - TILE_SIZE
                            ELSE left + TILE_SIZE - roomWidth)
                      ELSE pos.worldX,
           worldY |-> IF isAdjacentVertically /\ overlapTop # TILE_SIZE
                      THEN (IF room.roomY < roomY THEN bottom - TILE_SIZE
                            ELSE top + TILE_SIZE - roomHeight)
                      ELSE pos.worldY]
     ELSE [worldX |-> IF proposed.left < right /\ proposed.right > left
                      THEN right ELSE pos.worldX,
           worldY |-> IF proposed.top < bottom /\ proposed.bottom > top
                      THEN bottom ELSE pos.worldY]

RECURSIVE ValidateLoop(_, _, _, _, _, _, _, _)
\* the loop "for (const room of this.rooms.values())" from room i on
ValidateLoop(rooms, i, pos, proposed, roomWidth, roomHeight, roomX, roomY) ==
  IF i > Len(rooms) THEN pos
  ELSE ValidateLoop(rooms, i + 1,
                    ValidateAgainst(rooms[i], pos, proposed, roomWidth,
                                    roomHeight, roomX, roomY),
                    proposed, roomWidth, roomHeight, roomX, roomY)

\* validateRoomPosition(worldX, worldY, roomWidth, roomHeight, roomX, roomY)
ValidateRoomPosition(rooms, worldX, worldY, roomWidth, roomHeight, roomX, roomY) ==
  ValidateLoop(rooms, 1, [worldX |-> worldX, worldY |-> worldY],
               [left |-> worldX, right |-> worldX + roomWidth,
                top |-> worldY, bottom |-> worldY + roomHeight],
               roomWidth, roomHeight, roomX, roomY)

\* a calculateOptimalRoomPosition without the test for negative
\* coordinates: no shift of the rooms, the computed position validated as
\* it is
CalculateOptimalRoomPositionUnshifted(rooms, roomX, roomY, roomData) ==
  LET roomWidth == roomData.size[1] * TILE_SIZE
      roomHeight == roomData.size[2] * TILE_SIZE
      x0 == IF HasRoom(rooms, roomX - 1, roomY)
            THEN GetRoom(rooms, roomX - 1, roomY).worldX
                 + GetRoom(rooms, roomX - 1, roomY).width - TILE_SIZE
            ELSE IF HasRoom(rooms, roomX + 1, roomY)
            THEN GetRoom(rooms, roomX + 1, roomY).worldX + TILE_SIZE - roomWidth
            ELSE CalculateRoomWorldPosition(rooms, roomX, roomY).worldX
      y0 == IF HasRoom(rooms, roomX, roomY - 1)
            THEN GetRoom(rooms, roomX, roomY - 1).worldY
                 + GetRoom(rooms, roomX, roomY - 1).height - TILE_SIZE
            ELSE IF HasRoom(rooms, roomX, roomY + 1)
            THEN GetRoom(rooms, roomX, roomY + 1).worldY + TILE_SIZE - roomHeight
            ELSE CalculateRoomWorldPosition(rooms, roomX, roomY).worldY
  IN [rooms |-> rooms,
      pos |-> ValidateRoomPosition(rooms, x0, y0,
                                   roomWidth, roomHeight, roomX, roomY)]

\* calculateOptimalRoomPosition(roomX, roomY, roomData): the rooms after the
\* shift that keeps coordinates non-negative, and the validated position
CalculateOptimalRoomPosition(rooms, roomX, roomY, roomData) ==
  LET roomWidth == roomData.size[1] * TILE_SIZE
      roomHeight == roomData.size[2] * TILE_SIZE
      x0 == IF HasRoom(rooms, roomX - 1, roomY)
            THEN GetRoom(rooms, roomX - 1, roomY).worldX
                 + GetRoom(rooms, roomX - 1, roomY).width - TILE_SIZE
            ELSE IF HasRoom(rooms, roomX + 1, roomY)
            THEN GetRoom(rooms, roomX + 1, roomY).worldX + TILE_SIZE - roomWidth
            ELSE CalculateRoomWorldPosition(rooms, roomX, roomY).worldX
      y0 == IF HasRoom(rooms, roomX, roomY - 1)
            THEN GetRoom(rooms, roomX, roomY - 1).worldY
                 + GetRoom(rooms, roomX, roomY - 1).height - TILE_SIZE
            ELSE IF HasRoom(rooms, roomX, roomY + 1)
            THEN GetRoom(rooms, roomX, roomY + 1).worldY + TILE_SIZE - roomHeight
            ELSE CalculateRoomWorldPosition(rooms, roomX, roomY).worldY
      shifted == AdjustAllRoomsPosition(rooms,
                                        IF x0 < 0 THEN 0 - x0 ELSE 0,
                                        IF y0 < 0 THEN 0 - y0 ELSE 0)
  IN [rooms |-> shifted,
      pos |-> ValidateRoomPosition(shifted, Max(0, x0), Max(0, y0),
                                   roomWidth, roomHeight, roomX, roomY)]

\* rng.choice(array) for a non-empty array: the element and the generator
\* state after the draw
Choice(rng, array) ==
  LET d == RandomInt(rng, 0, Len(array))
  IN [rng |-> d.rng, val |-> array[d.val + 1]]

\* array.splice(posIndex, 1): the array without its element posIndex (0-based)
Splice(array, posIndex) ==
  [k \in 1..(Len(array) - 1) |-> IF k <= posIndex THEN array[k] ELSE array[k + 1]]

\* a generateRoomAt that forgets to count the room it places
GenerateRoomAtUncounted(W, tiles, roomX, roomY) ==
  LET suitableTiles == FindSuitableTiles(tiles,
                         GetRequiredConnections(W.rooms, roomX, roomY), FALSE)
      chosen == Choice(W.rng, suitableTiles)
      placed == CalculateOptimalRoomPosition(W.rooms, roomX, roomY, chosen.val)
  IN IF \/ HasRoom(W.rooms, roomX, roomY)
        \/ ~IsWithinLevelBounds(W, roomX, roomY)
        \/ W.generatedRooms >= W.levelConstraints.maxRooms - 1
     THEN [W |-> W, ok |-> FALSE]
     ELSE IF Len(suitableTiles) = 0
     THEN [W |-> [W EXCEPT !.shortfall = TRUE], ok |-> FALSE]
     ELSE [W |-> CreateRoom([W EXCEPT !.rng = chosen.rng, !.rooms = placed.rooms,
                                      !.negative = @ \/ placed.pos.worldX < 0
                                                     \/ placed.pos.worldY < 0],
                            chosen.val, placed.pos.worldX, placed.pos.worldY,
                            roomX, roomY),
           ok |-> TRUE]

\* generateRoomAt(roomX, roomY): the manager afterwards and the value returned
GenerateRoomAt(W, tiles, roomX, roomY) ==
  LET suitableTiles == FindSuitableTiles(tiles,
                         GetRequiredConnections(W.rooms, roomX, roomY), FALSE)
      chosen == Choice(W.rng, suitableTiles)
      placed == CalculateOptimalRoomPosition(W.rooms, roomX, roomY, chosen.val)
  IN IF \/ HasRoom(W.rooms, roomX, roomY)
        \/ ~IsWithinLevelBounds(W, roomX, roomY)
        \/ W.generatedRooms >= W.levelConstraints.maxRooms - 1
     THEN [W |-> W, ok |-> FALSE]
     ELSE IF Len(suitableTiles) = 0
     THEN [W |-> [W EXCEPT !.shortfall = TRUE], ok |-> FALSE]
     ELSE [W |-> CreateRoom([W EXCEPT !.rng = chosen.rng, !.rooms = placed.rooms,
                                      !.generatedRooms = @ + 1,
                                      !.negative = @ \/ placed.pos.worldX < 0
                                                     \/ placed.pos.worldY < 0],
                            chosen.val, placed.pos.worldX, placed.pos.worldY,
                            roomX, roomY),
           ok |-> TRUE]

\* generateStartRoom()
GenerateStartRoom(W, tiles) ==
  LET startTiles == SelectSeq(tiles, LAMBDA tile : tile.start)
      chosen == Choice(W.rng, startTiles)
  IN IF Len(startTiles) = 0 THEN [W EXCEPT !.shortfall = TRUE]
     ELSE [CreateRoom(W, chosen.val, 0, 0, 0, 0)
             EXCEPT !.rng = chosen.rng, !.startRoom = TRUE]

RECURSIVE AddRooms(_, _, _, _, _, _, _)
\* the loop "for (i = 0; i < roomsToAdd && adjacentPositions.length > 0; i++)"
\* of generateFiniteLevel, from iteration i on
AddRooms(W, tiles, generationQueue, generatedPositions, adjacentPositions, i, roomsToAdd) ==
  IF ~(i < roomsToAdd /\ Len(adjacentPositions) > 0)
  THEN [W |-> W, generationQueue |-> generationQueue,
        generatedPositions |-> generatedPositions]
  ELSE LET d == RandomInt(W.rng, 0, Len(adjacentPositions))
           newPos == adjacentPositions[d.val + 1]
           g == GenerateRoomAt([W EXCEPT !.rng = d.rng], tiles, newPos[1], newPos[2])
       IN AddRooms([g.W EXCEPT !.attempts = @ + 1], tiles,
                   IF g.ok THEN Append(generationQueue, newPos) ELSE generationQueue,
                   IF g.ok THEN generatedPositions \cup {newPos} ELSE generatedPositions,
                   Splice(adjacentPositions, d.val), i + 1, roomsToAdd)

RECURSIVE GenerationLoop(_, _, _, _)
\* the while loop of generateFiniteLevel
GenerationLoop(W, tiles, generationQueue, generatedPositions) ==
  LET roomsToGenerate == W.levelConstraints.maxRooms - 1
  IN IF ~(W.generatedRooms < roomsToGenerate /\ Len(generationQueue) > 0) THEN W
     ELSE LET currentPos == Head(generationQueue)
              adjacentPositions ==
                GetValidAdjacentPositions(W, currentPos, generatedPositions)
              d == RandomInt(W.rng, 1, 3)
              roomsToAdd == Min(Min(d.val, roomsToGenerate - W.generatedRooms),
                                Len(adjacentPositions))
              a == AddRooms([W EXCEPT !.rng = d.rng], tiles, Tail(generationQueue),
                            generatedPositions, adjacentPositions, 0, roomsToAdd)
          IN GenerationLoop(a.W, tiles, a.generationQueue, a.generatedPositions)

\* the cells of the level bounds in the order of the two nested loops of
\* ensureMinimumRooms: x outer, y inner
BoundsCells(W) ==
  LET ny == W.levelBounds.maxY - W.levelBounds.minY + 1
      nx == W.levelBounds.maxX - W.levelBounds.minX + 1
  IN [k \in 1..(nx * ny) |-> << W.levelBounds.minX + (k - 1) \div ny,
                               W.levelBounds.minY + ((k - 1) % ny) >>]

RECURSIVE PlaceAdditional(_, _, _, _, _)
\* the loop "for (i = 0; i < roomsNeeded && availablePositions.length > 0; i++)"
\* of ensureMinimumRooms
PlaceAdditional(W, tiles, availablePositions, i, roomsNeeded) ==
  IF ~(i < roomsNeeded /\ Len(availablePositions) > 0) THEN W
  ELSE LET d == RandomInt(W.rng, 0, Len(availablePositions))
           pos == availablePositions[d.val + 1]
           g == GenerateRoomAt([W EXCEPT !.rng = d.rng], tiles, pos[1], pos[2])
       IN PlaceAdditional([g.W EXCEPT !.topUps = IF g.ok THEN @ + 1 ELSE @,
                                      !.attempts = @ + 1],
                          tiles, Splice(availablePositions, d.val), i + 1,
                          roomsNeeded)

\* an ensureMinimumRooms that does nothing
EnsureMinimumRoomsSkipped(W, tiles) == W

\* ensureMinimumRooms()
EnsureMinimumRooms(W, tiles) ==
  LET totalRooms == W.generatedRooms + 1
      availablePositions ==
        SelectSeq(BoundsCells(W),
                  LAMBDA pos : /\ ~HasRoom(W.rooms, pos[1], pos[2])
                               /\ HasAdjacentRoom(W.rooms, pos[1], pos[2]))
  IN IF totalRooms < W.levelConstraints.minRooms
     THEN PlaceAdditional(W, tiles, availablePositions, 0,
                          W.levelConstraints.minRooms - totalRooms)
     ELSE W

\* the Manhattan distance of a room's grid cell from the origin
GridDistance(room) == Abs(room.roomX) + Abs(room.roomY)

RECURSIVE FarthestFrom(_, _, _, _)
\* the loop "for (const room of allRooms)" of generateExitRoom from room i
\* on: the index of exitRoom (0 for null) when the loop ends
FarthestFrom(rooms, i, exitRoom, maxDistance) ==
  IF i > Len(rooms) THEN exitRoom
  ELSE IF GridDistance(rooms[i]) > maxDistance
  THEN FarthestFrom(rooms, i + 1, i, GridDistance(rooms[i]))
  ELSE FarthestFrom(rooms, i + 1, exitRoom, maxDistance)

\* a generateExitRoom whose scan replaces the candidate on ties
GenerateExitRoomLastOnTie(W) ==
  LET far == CHOOSE i \in 1..Len(W.rooms) :
               /\ \A j \in 1..Len(W.rooms) :
                     GridDistance(W.rooms[j]) <= GridDistance(W.rooms[i])
               /\ \A j \in (i + 1)..Len(W.rooms) :
                     GridDistance(W.rooms[j]) < GridDistance(W.rooms[i])
  IN IF W.exitRoomsGenerated >= W.levelConstraints.maxExits \/ Len(W.rooms) = 0
     THEN W
     ELSE [W EXCEPT !.rooms[far].isExit = TRUE, !.exitRoomsGenerated = @ + 1]

\* generateExitRoom()
GenerateExitRoom(W) ==
  LET exitRoom == FarthestFrom(W.rooms, 1, 0, 0 - 1)
  IN IF W.exitRoomsGenerated >= W.levelConstraints.maxExits \/ Len(W.rooms) = 0
     THEN W
     ELSE [W EXCEPT !.rooms[exitRoom].isExit = TRUE, !.exitRoomsGenerated = @ + 1]

\* generateFiniteLevel()
GenerateFiniteLevel(W, tiles) ==
  GenerateExitRoom(
    EnsureMinimumRooms(
      GenerationLoop(GenerateStartRoom(W, tiles), tiles,
                     << <<0, 0>> >>, { <<0, 0>> }),
      tiles))

\* an initialize that keeps the generator of the previous level
InitializeWithoutReseed(W, tiles, seed, levelNumber) ==
  GenerateFiniteLevel(
    [AdjustConstraintsForLevel(W, levelNumber)
       EXCEPT !.seed = seed, !.rooms = << >>,
              !.generatedRooms = 0, !.exitRoomsGenerated = 0,
              !.levelComplete = FALSE, !.shortfall = FALSE, !.topUps = 0,
              !.negative = FALSE, !.attempts = 0],
    tiles)

\* initialize(seed, levelNumber)
Initialize(W, tiles, seed, levelNumber) ==
  GenerateFiniteLevel(
    [AdjustConstraintsForLevel(W, levelNumber)
       EXCEPT !.seed = seed, !.rng = SeededRandom(seed), !.rooms = << >>,
              !.generatedRooms = 0, !.exitRoomsGenerated = 0,
              !.levelComplete = FALSE, !.shortfall = FALSE, !.topUps = 0,
              !.negative = FALSE, !.attempts = 0],
    tiles)

(***************************************************************************)
(* dynamicLevel.js DynamicLevelManager.generateLevel, as a state machine.  *)
(*   catalog     the tiles the TileLoader holds, fixed once loaded         *)
(*   W           this.worldManager                                         *)
(*   levelNumber this.levelNumber                                          *)
(*   genResult   "none" before the first call, then "ok" when the last     *)
(*               call returned true and "failed" when it returned false    *)
(*   remembered  history: one earlier call, its arguments and the rooms it *)
(*               left; between: a call with other arguments came after it  *)
(*   autoDoors   the AutoDoor entities of this.entities, in creation order *)
(***************************************************************************)
VARIABLES catalog, W, levelNumber, genResult, remembered, between, autoDoors

genVars == <<catalog, W, levelNumber, genResult, remembered, between, autoDoors>>

(***************************************************************************)
(* laserPowerCell.js Game in the PLAYING state, with the level it plays.   *)
(*   gameState     gameStateManager's current state                        *)
(*   lives         gameData.lives                                          *)
(*   levelRooms    the rooms of the world manager, in insertion order      *)
(*   levelComplete worldManager.levelComplete                              *)
(*   entities      levelManager.entities without the player: the laser     *)
(*                 emitters and power cells, in creation order             *)
(*   player        the position of levelManager.player                     *)
(*   laserStates, cellStates, powerStates   the three maps of the power    *)
(*                 manager, each a function on its set of keys             *)
(*   events        the events the power manager emitted in the last step   *)
(*   completionSignal  the onLevelComplete callback ran in the last step   *)
(*   tickPre, quiet, lost   history: what the tick found when it began, if  *)
(*                 the last step was one; the number of ticks since the    *)
(*                 emitters last changed; the cells an emitter powered     *)
(*                 when it was last turned off or rotated                  *)
(***************************************************************************)
VARIABLES gameState, lives, levelRooms, levelComplete, entities, player,
          laserStates, cellStates, powerStates, events,
          completionSignal, tickPre, quiet, lost

tickVars == <<gameState, lives, levelRooms, levelComplete, entities, player,
              laserStates, cellStates, powerStates, events,
              completionSignal, tickPre, quiet, lost>>

(***************************************************************************)
(* A function of the program called on its own: call is the function and   *)
(* the arguments it was called with, returned what it returned.            *)
(***************************************************************************)
VARIABLES call, returned

pureVars == <<call, returned>>

(***************************************************************************)
(* dynamicLevel.js LevelManager, the part the doors and the collisions     *)
(* use; here entities holds the walls and the doors of the level.          *)
(*   solidObjects            this.solidObjects, the uids of its members    *)
(*                           in array order                                *)
(*   manualCleanupRequested  this.manualCleanupRequested                   *)
(*   frames                  history: 0 until the level manager has run   *)
(*                           a frame of the level, then 1 and 2 in turn    *)
(***************************************************************************)
VARIABLES solidObjects, manualCleanupRequested, frames

doorVars == <<solidObjects, manualCleanupRequested, frames>>

(***************************************************************************)
(* powerManagement.js LaserPowerState: one connection of a laser and a     *)
(* cell under a clock.                                                     *)
(*   now            the value Date.now() returns, in milliseconds          *)
(*   connection     the fields of the LaserPowerState                      *)
(*   connectedTime  history: the time that passed while isConnected        *)
(***************************************************************************)
VARIABLES now, connection, connectedTime

timeVars == <<now, connection, connectedTime>>

vars == <<genVars, tickVars, pureVars, doorVars, timeVars>>

\* new LaserPowerState(laserId, powerCellId)
LaserPowerState(laserId, powerCellId) ==
  [laserId |-> laserId, powerCellId |-> powerCellId, isConnected |-> FALSE,
   lastConnectedTime |-> 0, totalPowerTime |-> 0, connectionCount |-> 0]

NoConnection ==
  /\ now = 0 /\ connectedTime = 0
  /\ connection = LaserPowerState(<<"emitter1">>, <<"cell1">>)

\* the level manager as its constructor leaves it
NoDoorLevel == solidObjects = << >> /\ manualCleanupRequested = FALSE /\ frames = 0

NotCalled == [op |-> "none"]

NoResult == [done |-> FALSE]

Idle == call = NotCalled /\ returned = NoResult

EmptyMap == [k \in {} |-> FALSE]

NoTick == [ticked |-> FALSE, inExit |-> FALSE, allPowered |-> FALSE, levelComplete |-> FALSE]

\* the game as constructed, in the menu: no level, no entity, and the maps
\* of the power manager empty
InMenu ==
  /\ gameState = "menu" /\ lives = 1
  /\ levelRooms = << >> /\ levelComplete = FALSE
  /\ entities = << >> /\ player = [x |-> 0, y |-> 0]
  /\ laserStates = EmptyMap /\ cellStates = EmptyMap /\ powerStates = EmptyMap
  /\ events = {} /\ completionSignal = FALSE
  /\ tickPre = NoTick /\ quiet = 0 /\ lost = {}
  /\ NoDoorLevel /\ NoConnection

Levels == {1, 3, 12}
Seeds == {1, 3, 9, 1690}

NoCall == [n |-> 0, seed |-> 0, rooms |-> << >>]

\* the room graph: per grid cell the template id and the world position
RoomGraph(rooms) ==
  { [roomX |-> rooms[i].roomX, roomY |-> rooms[i].roomY, id |-> rooms[i].id,
     worldX |-> rooms[i].worldX, worldY |-> rooms[i].worldY] : i \in 1..Len(rooms) }

InitGen ==
  /\ catalog \in Catalogs
  /\ W = NewWorldManager
  /\ levelNumber = 1
  /\ genResult = "none"
  /\ remembered = NoCall
  /\ between = FALSE
  /\ autoDoors = << >>
  /\ InMenu
  /\ Idle

(***************************************************************************)
(* Properties of a generated level                                         *)
(***************************************************************************)
GridAdjacent(a, b) == Abs(a.roomX - b.roomX) + Abs(a.roomY - b.roomY) = 1

RECURSIVE ReachableFrom(_, _)
\* the indices of the rooms reached from the set S of indices by steps
\* between grid-adjacent rooms
ReachableFrom(rooms, S) ==
  LET T == S \cup { i \in 1..Len(rooms) : \E j \in S : GridAdjacent(rooms[i], rooms[j]) }
  IN IF T = S THEN S ELSE ReachableFrom(rooms, T)

StartRooms(rooms) == { i \in 1..Len(rooms) : rooms[i].roomX = 0 /\ rooms[i].roomY = 0 }

\* width and height of the intersection of two rooms' world rectangles
OverlapWidth(a, b) ==
  Max(0, Min(a.worldX + a.width, b.worldX + b.width) - Max(a.worldX, b.worldX))
OverlapHeight(a, b) ==
  Max(0, Min(a.worldY + a.height, b.worldY + b.height) - Max(a.worldY, b.worldY))
Intersect(a, b) == OverlapWidth(a, b) > 0 /\ OverlapHeight(a, b) > 0

\* C1: after a generation that returned true, every placed room is reached
\* from the start room at grid (0,0) by steps between grid-adjacent rooms.
C1_Connectivity ==
  genResult = "ok" =>
    ReachableFrom(W.rooms, StartRooms(W.rooms)) = 1..Len(W.rooms)

\* C1 witness: a completed level in which ensureMinimumRooms placed a room
\* in addition to those of the queue phase
C1_Witness ==
  /\ genResult = "ok" /\ W.topUps > 0 /\ Len(W.rooms) > 5
  /\ ReachableFrom(W.rooms, StartRooms(W.rooms)) = 1..Len(W.rooms)

\* C2: after a generation that returned true, two distinct rooms either do
\* not intersect in world pixels, or are grid-adjacent and intersect in a
\* strip one tile wide (horizontal neighbours) or one tile tall (vertical).
C2_NonOverlapExceptEdge ==
  genResult = "ok" =>
    \A i, j \in 1..Len(W.rooms) :
      (i < j /\ Intersect(W.rooms[i], W.rooms[j])) =>
        /\ GridAdjacent(W.rooms[i], W.rooms[j])
        /\ W.rooms[i].roomY = W.rooms[j].roomY =>
             OverlapWidth(W.rooms[i], W.rooms[j]) = TILE_SIZE
        /\ W.rooms[i].roomX = W.rooms[j].roomX =>
             OverlapHeight(W.rooms[i], W.rooms[j]) = TILE_SIZE

\* history of C3: the arguments of the last call are those of the
\* remembered call
SameCallAgain ==
  /\ remembered # NoCall
  /\ levelNumber = remembered.n /\ W.seed = remembered.seed

\* C3: a call of generateLevel(n, seed) leaves the room graph an earlier
\* call with the same n and seed left, whatever was generated in between.
C3_Determinism ==
  SameCallAgain =>
    /\ Len(W.rooms) = Len(remembered.rooms)
    /\ RoomGraph(W.rooms) = RoomGraph(remembered.rooms)

\* C3 witness: the remembered call repeated after a call with other
\* arguments, with a level of several rooms
C3_Witness ==
  /\ SameCallAgain /\ between /\ genResult = "ok" /\ Len(W.rooms) > 3
  /\ RoomGraph(W.rooms) = RoomGraph(remembered.rooms)

\* C8: at the end of every generation the number of rooms, start room
\* included, is at most maxRooms of the level.
C8_AtMostMaxRooms ==
  genResult # "none" => Len(W.rooms) <= W.levelConstraints.maxRooms

\* C8 witness: a generation that filled the level up to maxRooms
C8_Witness ==
  /\ genResult = "ok" /\ Len(W.rooms) = W.levelConstraints.maxRooms
  /\ W.generatedRooms = W.levelConstraints.maxRooms - 1

\* C9: when every placement attempt found a compatible template, the
\* number of rooms, start room included, is at least minRooms of the level.
C9_AtLeastMinRooms ==
  (genResult # "none" /\ ~W.shortfall) =>
    Len(W.rooms) >= W.levelConstraints.minRooms

\* C9 witness: the queue phase ended below minRooms and ensureMinimumRooms
\* made up the difference, no attempt lacking a template
C9_Witness ==
  /\ genResult = "ok" /\ ~W.shortfall /\ W.topUps > 0
  /\ Len(W.rooms) - W.topUps < W.levelConstraints.minRooms
  /\ Len(W.rooms) >= W.levelConstraints.minRooms

ExitRooms(rooms) == { i \in 1..Len(rooms) : rooms[i].isExit }

\* the rooms at the greatest grid distance from the origin
FarthestRooms(rooms) ==
  { i \in 1..Len(rooms) :
      \A j \in 1..Len(rooms) : GridDistance(rooms[j]) <= GridDistance(rooms[i]) }

\* C10: after a generation that returned true exactly one room is flagged
\* isExit, the first in placement order among the rooms of greatest
\* |roomX| + |roomY|.
C10_ExitIsFirstFarthest ==
  genResult = "ok" =>
    \E e \in FarthestRooms(W.rooms) :
      /\ ExitRooms(W.rooms) = {e}
      /\ \A j \in FarthestRooms(W.rooms) : e <= j

\* C10 witness: several rooms share the greatest distance and the exit is
\* the one placed first
C10_Witness ==
  /\ genResult = "ok" /\ Cardinality(FarthestRooms(W.rooms)) > 1
  /\ \E e \in FarthestRooms(W.rooms) :
       ExitRooms(W.rooms) = {e} /\ \A j \in FarthestRooms(W.rooms) : e <= j

(***************************************************************************)
(* The level in play: geometry.  Positions are in pixels, a Vector2 is a   *)
(* record [x, y].  Every beam runs along an axis: its direction is one of  *)
(* the four DIRECTIONS.                                                    *)
(***************************************************************************)
Vec(x, y) == [x |-> x, y |-> y]

VAdd(a, b) == Vec(a.x + b.x, a.y + b.y)

VScale(a, k) == Vec(a.x * k, a.y * k)

DistSq(a, b) == (a.x - b.x) * (a.x - b.x) + (a.y - b.y) * (a.y - b.y)

CeilDiv(a, b) == -((-a) \div b)

MaxDistance == 2000

StepSize == 8

\* ui.js LaserEmitter and PowerCell as constructed: an emitter is inactive
\* and not solid, a cell unpowered and solid; each is one tile wide and high.
\* An id is the sequence of the pieces of the id string between its
\* underscores: "auto_emitter_straight_1" is <<"auto", "emitter",
\* "straight", "1">>.
LaserEmitter(id, tx, ty, dir) ==
  [type |-> "LaserEmitter", id |-> id, x |-> tx * TILE_SIZE, y |-> ty * TILE_SIZE,
   direction |-> dir, isActive |-> FALSE, isPowered |-> FALSE,
   laserPowered |-> FALSE, solid |-> FALSE]

PowerCell(id, tx, ty) ==
  [type |-> "PowerCell", id |-> id, x |-> tx * TILE_SIZE, y |-> ty * TILE_SIZE,
   direction |-> "E", isActive |-> FALSE, isPowered |-> FALSE,
   laserPowered |-> FALSE, solid |-> TRUE]

GetBounds(e) == [x |-> e.x, y |-> e.y, width |-> TILE_SIZE, height |-> TILE_SIZE]

GetCenter(e) == Vec(e.x + TILE_SIZE \div 2, e.y + TILE_SIZE \div 2)

GetDirectionVector(e) ==
  CASE e.direction = "N" -> Vec(0, -1)
    [] e.direction = "S" -> Vec(0, 1)
    [] e.direction = "W" -> Vec(-1, 0)
    [] OTHER -> Vec(1, 0)

\* LaserEmitter.getLaserStart: two pixels ahead of the centre, a negative
\* centre coordinate replaced by 0
GetLaserStart(e) ==
  LET center == GetCenter(e)
  IN VAdd(Vec(Max(0, center.x), Max(0, center.y)), VScale(GetDirectionVector(e), 2))

\* WorldRoom.containsWorldPosition
ContainsWorldPosition(room, pos) ==
  /\ pos.x >= room.worldX /\ pos.x < room.worldX + room.tileWidth * TILE_SIZE
  /\ pos.y >= room.worldY /\ pos.y < room.worldY + room.tileHeight * TILE_SIZE

\* WorldManager.getRoomAtWorldPosition: the index of the first room, in
\* insertion order, that contains the position; 0 for null
GetRoomAtWorldPosition(rms, pos) ==
  LET S == { i \in 1..Len(rms) : ContainsWorldPosition(rms[i], pos) }
  IN IF S = {} THEN 0 ELSE CHOOSE i \in S : \A j \in S : i <= j

WorldToLocal(room, pos) ==
  Vec((pos.x - room.worldX) \div TILE_SIZE, (pos.y - room.worldY) \div TILE_SIZE)

\* ui.js AutoDoor at a position in pixels: closed and solid as constructed;
\* Door.update sets isOpen and clears solid in one step when the opening
\* ends, and the reverse when the closing ends
AutoDoor(id, x, y, open) ==
  [type |-> "AutoDoor", id |-> id, x |-> x, y |-> y,
   direction |-> "E", isActive |-> FALSE, isPowered |-> FALSE,
   laserPowered |-> FALSE, solid |-> ~open, isOpen |-> open]

IsDoor(e) == e.type \in {"AutoDoor", "Door"}

\* hasDoorAtPosition in hasCollisionAt: a door, open or closed, whose
\* position lies in the tile of the world grid that holds the position
HasDoorAtPosition(pos, ents) ==
  \E i \in 1..Len(ents) :
    /\ IsDoor(ents[i])
    /\ ents[i].x \div TILE_SIZE = pos.x \div TILE_SIZE
    /\ ents[i].y \div TILE_SIZE = pos.y \div TILE_SIZE

\* hasCollisionAt with the collision map read under a door as well
HasCollisionAtUnderDoors(pos, ents, rms) ==
  \/ \E i \in 1..Len(ents) :
       /\ ents[i].solid
       /\ ~(IsDoor(ents[i]) /\ ents[i].isOpen)
       /\ pos.x >= ents[i].x /\ pos.x < ents[i].x + TILE_SIZE
       /\ pos.y >= ents[i].y /\ pos.y < ents[i].y + TILE_SIZE
  \/ LET r == GetRoomAtWorldPosition(rms, pos)
     IN /\ r # 0
        /\ LET localPos == WorldToLocal(rms[r], pos)
           IN /\ localPos.x >= 0 /\ localPos.x < rms[r].tileWidth
              /\ localPos.y >= 0 /\ localPos.y < rms[r].tileHeight
              /\ <<localPos.x, localPos.y>> \in rms[r].collisionMap

\* LevelManager.hasCollisionAt: a solid object that is no open door and
\* whose bounds hold the position, or a set cell of the collision map of
\* the room there with no door at the position; false outside every room.
\* The solid objects are the solid entities: a door leaves and joins them
\* as it turns open and closed.
HasCollisionAt(pos, ents, rms) ==
  \/ \E i \in 1..Len(ents) :
       /\ ents[i].solid
       /\ ~(IsDoor(ents[i]) /\ ents[i].isOpen)
       /\ pos.x >= ents[i].x /\ pos.x < ents[i].x + TILE_SIZE
       /\ pos.y >= ents[i].y /\ pos.y < ents[i].y + TILE_SIZE
  \/ LET r == GetRoomAtWorldPosition(rms, pos)
     IN /\ r # 0
        /\ LET localPos == WorldToLocal(rms[r], pos)
           IN /\ localPos.x >= 0 /\ localPos.x < rms[r].tileWidth
              /\ localPos.y >= 0 /\ localPos.y < rms[r].tileHeight
              /\ ~HasDoorAtPosition(pos, ents)
              /\ <<localPos.x, localPos.y>> \in rms[r].collisionMap

\* the wall scan without the snap: the point one step before the wall
SnapToTileBoundaryNone(point, direction) == point

\* LaserCollisionDetector.snapToTileBoundary
SnapToTileBoundary(point, direction) ==
  LET snappedX == IF direction.x > 0 THEN CeilDiv(point.x, TILE_SIZE) * TILE_SIZE
                  ELSE IF direction.x < 0 THEN (point.x \div TILE_SIZE) * TILE_SIZE
                  ELSE point.x
      snappedY == IF direction.y > 0 THEN CeilDiv(point.y, TILE_SIZE) * TILE_SIZE
                  ELSE IF direction.y < 0 THEN (point.y \div TILE_SIZE) * TILE_SIZE
                  ELSE point.y
  IN IF Abs(direction.x) > Abs(direction.y)
       THEN Vec(snappedX, point.y)
       ELSE Vec(point.x, snappedY)

RECURSIVE FirstWallStep(_, _, _, _, _)
\* the first k in i..steps with a collision at start + stepVector * k; 0
\* when there is none.  The steps are looked at ten at a time.
FirstWallStep(start, direction, ents, rms, i) ==
  IF i > MaxDistance \div StepSize THEN 0
  ELSE LET S == { k \in i..Min(i + 9, MaxDistance \div StepSize) :
                    HasCollisionAt(VAdd(start, VScale(direction, StepSize * k)),
                                   ents, rms) }
       IN IF S # {} THEN CHOOSE k \in S : \A j \in S : k <= j
          ELSE FirstWallStep(start, direction, ents, rms, i + 10)

\* LaserCollisionDetector.checkWallCollision; found is false for null
CheckWallCollision(start, direction, ents, rms) ==
  LET i == FirstWallStep(start, direction, ents, rms, 1)
  IN IF i = 0 THEN [found |-> FALSE, point |-> start]
     ELSE [found |-> TRUE,
           point |-> SnapToTileBoundary(
                       VAdd(start, VScale(direction, StepSize * (i - 1))), direction)]

\* where a coordinate held fixed by the beam lies against the two faces of a
\* rectangle across the beam
AxisClass(s, lo, hi) ==
  IF s < lo \/ s > hi THEN "out" ELSE IF s = lo \/ s = hi THEN "edge" ELSE "in"

Miss == [hit |-> FALSE, t |-> 0, nan |-> FALSE]

\* lineAABBIntersect for a segment along an axis.  t is the distance from
\* start to the hit point (the code's t times the length of the segment).
\* Across the beam invDir is Infinity, so both products are -Infinity and
\* +Infinity when start lies strictly between the faces, both of one sign
\* when it lies outside (null), and one is 0 * Infinity = NaN when it lies
\* on a face: then tMin and tMax are NaN, no comparison rejects, and a hit
\* with t = NaN is returned (nan).  The same holds on both axes for a
\* segment of length 0, where two infinite bounds give t = Infinity > 1.
LineAABBIntersect(start, end, rect) ==
  LET dx == end.x - start.x
      dy == end.y - start.y
      len == Abs(dx) + Abs(dy)
      classX == AxisClass(start.x, rect.x, rect.x + rect.width)
      classY == AxisClass(start.y, rect.y, rect.y + rect.height)
      along == dx # 0
      sgn == IF dx + dy > 0 THEN 1 ELSE -1
      lo == IF along THEN rect.x - start.x ELSE rect.y - start.y
      hi == IF along THEN rect.x + rect.width - start.x
                     ELSE rect.y + rect.height - start.y
      tMin == Min(lo * sgn, hi * sgn)
      tMax == Max(lo * sgn, hi * sgn)
      t == IF tMin < 0 THEN tMax ELSE tMin
      across == IF along THEN classY ELSE classX
  IN IF len = 0
       THEN IF classX = "edge" \/ classY = "edge"
              THEN [hit |-> TRUE, t |-> 0, nan |-> TRUE] ELSE Miss
     ELSE IF across = "edge" THEN [hit |-> TRUE, t |-> 0, nan |-> TRUE]
     ELSE IF across = "out" THEN Miss
     ELSE IF tMax < 0 \/ tMin > len \/ t > len THEN Miss
     ELSE [hit |-> TRUE, t |-> t, nan |-> FALSE]

\* the point of the segment nearest to the point p, as pointToLineDistance
\* finds it (param clamped to [0, 1])
ClosestOnSegment(p, lineStart, lineEnd) ==
  LET A == p.x - lineStart.x
      B == p.y - lineStart.y
      C == lineEnd.x - lineStart.x
      D == lineEnd.y - lineStart.y
      dot == A * C + B * D
      lenSq == C * C + D * D
  IN IF lenSq = 0 \/ dot < 0 THEN lineStart
     ELSE IF dot > lenSq THEN lineEnd
     ELSE IF C # 0 THEN Vec(p.x, lineStart.y) ELSE Vec(lineStart.x, p.y)

\* the square of pointToLineDistance
PointToLineDistanceSq(p, lineStart, lineEnd) ==
  DistSq(p, ClosestOnSegment(p, lineStart, lineEnd))

(***************************************************************************)
(* The trace phase: part_000 LaserCollisionDetector, part_003 LaserPhysics *)
(* and LaserSystem.  An entity is named by its index in the entity list.   *)
(***************************************************************************)
MaxBeamsPerFrame == 50

RECURSIVE InsertByDistance(_, _)
\* one step of the stable sort of the hits by t: h goes behind every hit
\* with a t not greater than its own
InsertByDistance(sorted, h) ==
  IF sorted = << >> THEN <<h>>
  ELSE IF Head(sorted).hit.t <= h.hit.t
    THEN <<Head(sorted)>> \o InsertByDistance(Tail(sorted), h)
    ELSE <<h>> \o sorted

RECURSIVE CollectHits(_, _, _, _, _)
CollectHits(start, end, ents, i, sorted) ==
  IF i > Len(ents) THEN sorted
  ELSE LET hit == LineAABBIntersect(start, end, GetBounds(ents[i]))
       IN CollectHits(start, end, ents, i + 1,
            IF hit.hit THEN InsertByDistance(sorted, [entity |-> i, hit |-> hit])
                       ELSE sorted)

\* LaserCollisionDetector.findEntityCollisions: every entity is visible and
\* active; the entities the segment meets, nearest first
FindEntityCollisions(start, end, ents) == CollectHits(start, end, ents, 1, << >>)

RECURSIVE WalkHits(_, _, _, _, _, _)
\* the loop of LaserCollisionDetector.traceLaser over the sorted hits: an
\* emitter is skipped, a solid open door is passed, any other solid entity
\* ends the beam at its hit point and ends the loop, an entity that is not
\* solid is passed
WalkHits(start, direction, ents, hits, endPoint, processed) ==
  IF hits = << >> THEN [endPoint |-> endPoint, hitEntities |-> processed]
  ELSE LET h == Head(hits)
       IN IF ents[h.entity].type = "LaserEmitter"
            THEN WalkHits(start, direction, ents, Tail(hits), endPoint, processed)
          ELSE IF ents[h.entity].solid
                  /\ ~(IsDoor(ents[h.entity]) /\ ents[h.entity].isOpen)
            THEN [endPoint |-> VAdd(start, VScale(direction, h.hit.t)),
                  hitEntities |-> Append(processed, h.entity)]
          ELSE WalkHits(start, direction, ents, Tail(hits), endPoint,
                        Append(processed, h.entity))

\* LaserCollisionDetector.traceLaser from the result of the wall scan on:
\* the entities met before the end point the scan left
TraceLaserFrom(start, direction, ents, wallHitPoint) ==
  LET determinedEndPoint == IF wallHitPoint.found THEN wallHitPoint.point
                            ELSE VAdd(start, VScale(direction, MaxDistance))
  IN WalkHits(start, direction, ents,
              FindEntityCollisions(start, determinedEndPoint, ents),
              determinedEndPoint, << >>)

\* LaserCollisionDetector.traceLaser with hasCollisionAt as the wall
\* callback, as LaserSystem.update calls it
TraceLaser(start, direction, ents, rms) ==
  TraceLaserFrom(start, direction, ents,
                 CheckWallCollision(start, direction, ents, rms))

\* LaserCollisionDetector.traceLaser without a wall callback:
\* checkWallCollision returns null
TraceLaserAlone(start, direction, ents) ==
  TraceLaserFrom(start, direction, ents, [found |-> FALSE, point |-> start])

\* LaserPowerCellManager.processLaserHitOnPowerCell
ProcessLaserHitOnPowerCell(ents, i) ==
  IF ents[i].type = "PowerCell"
    THEN [ents EXCEPT ![i].isPowered = TRUE, ![i].laserPowered = TRUE]
    ELSE ents

RECURSIVE ProcessHits(_, _)
\* LaserPhysics.traceLaser, the loop over the hit entities of a trace
ProcessHits(ents, hitEntities) ==
  IF hitEntities = << >> THEN ents
  ELSE ProcessHits(ProcessLaserHitOnPowerCell(ents, Head(hitEntities)),
                   Tail(hitEntities))

RECURSIVE ProcessEmitters(_, _, _, _)
\* the loop of LaserSystem.update over the active emitters, in entity order;
\* each makes one beam from its start to the traced end point
ProcessEmitters(ents, rms, k, beams) ==
  IF k > Len(ents) \/ Len(beams) >= MaxBeamsPerFrame
    THEN [entities |-> ents, activeBeams |-> beams]
  ELSE IF ents[k].type = "LaserEmitter" /\ ents[k].isActive
    THEN LET start == GetLaserStart(ents[k])
             result == TraceLaser(start, GetDirectionVector(ents[k]), ents, rms)
         IN ProcessEmitters(ProcessHits(ents, result.hitEntities), rms, k + 1,
                            Append(beams, [start |-> start, end |-> result.endPoint]))
  ELSE ProcessEmitters(ents, rms, k + 1, beams)

\* LaserSystem.update: activeBeams is emptied and filled anew in every
\* call and read only after it in the same tick, so it is a value of the
\* tick and no variable.  The entity list of the game holds the player and
\* is never empty.
LaserSystemUpdate(ents, rms) == ProcessEmitters(ents, rms, 1, << >>)

\* the player is 0.8 tiles wide and high; its rectangle and centre in
\* fifths of a pixel
PlayerBounds5(pos) ==
  [x |-> 5 * pos.x, y |-> 5 * pos.y, width |-> 4 * TILE_SIZE, height |-> 4 * TILE_SIZE]

PlayerCenter5(pos) == Vec(5 * pos.x + 2 * TILE_SIZE, 5 * pos.y + 2 * TILE_SIZE)

\* Entity.getCenter of the player, rounded down to the pixel; the tests on
\* it are against tile boundaries, which the rounding does not cross
PlayerCenter(pos) == Vec((5 * pos.x + 2 * TILE_SIZE) \div 5, (5 * pos.y + 2 * TILE_SIZE) \div 5)

\* LaserCollisionDetector.checkPlayerLaserCollision: a beam meets the
\* rectangle of the player or passes its centre closer than width / 4
CheckPlayerLaserCollision(pos, beams) ==
  \E b \in 1..Len(beams) :
    \/ LineAABBIntersect(VScale(beams[b].start, 5), VScale(beams[b].end, 5),
                         PlayerBounds5(pos)).hit
    \/ PointToLineDistanceSq(PlayerCenter5(pos), VScale(beams[b].start, 5),
                             VScale(beams[b].end, 5)) < TILE_SIZE * TILE_SIZE

(***************************************************************************)
(* powerManagement.js PowerManagementSystem.  pm is the record of its maps *)
(* and of the events emitted so far in the running step; a map is a        *)
(* function on the set of its keys.  A connection key is the laser id, an  *)
(* underscore and the cell id: as a sequence of pieces, their concatenation.*)
(***************************************************************************)
MapSet(map, k, v) == [x \in DOMAIN map \cup {k} |-> IF x = k THEN v ELSE map[x]]

Event(type, laserId, cellId) == [type |-> type, laserId |-> laserId, cellId |-> cellId]

Emit(pm, type, laserId, cellId) ==
  [pm EXCEPT !.events = @ \cup {Event(type, laserId, cellId)}]

ConnectionKey(laserId, cellId) == laserId \o cellId

\* connectionKey.startsWith(laser.id + "_")
StartsWithId(connectionKey, laserId) ==
  /\ Len(connectionKey) > Len(laserId)
  /\ SubSeq(connectionKey, 1, Len(laserId)) = laserId

\* const [laserId, cellId] = connectionKey.split("_"): the first two pieces
SplitLaserId(connectionKey) == <<connectionKey[1]>>

SplitCellId(connectionKey) == <<connectionKey[2]>>

OfType(ents, type) == { i \in 1..Len(ents) : ents[i].type = type }

\* the entity a Map.set per entity leaves under the id: the last one
LastWithId(ents, type, id) ==
  CHOOSE i \in OfType(ents, type) :
    /\ ents[i].id = id
    /\ \A j \in OfType(ents, type) : ents[j].id = id => j <= i

\* clearStates
ClearStates(pm) ==
  [pm EXCEPT !.laserStates = EmptyMap, !.cellStates = EmptyMap, !.powerStates = EmptyMap]

\* initialize(entities)
PowerManagerInitialize(pm, ents) ==
  [pm EXCEPT
     !.powerStates = EmptyMap,
     !.laserStates =
        [id \in { ents[i].id : i \in OfType(ents, "LaserEmitter") } |->
           LET laser == ents[LastWithId(ents, "LaserEmitter", id)]
           IN [isActive |-> laser.isActive, direction |-> laser.direction]],
     !.cellStates =
        [id \in { ents[i].id : i \in OfType(ents, "PowerCell") } |->
           LET cell == ents[LastWithId(ents, "PowerCell", id)]
           IN [isPowered |-> cell.isPowered, laserPowered |-> cell.laserPowered,
               poweringLasers |-> << >>]]]

RECURSIVE UpdateLaserStates(_, _, _)
\* updateLaserStates, from the entity at index i on
UpdateLaserStates(pm, ents, i) ==
  IF i > Len(ents) THEN pm
  ELSE IF ents[i].type # "LaserEmitter" \/ ents[i].id \notin DOMAIN pm.laserStates
    THEN UpdateLaserStates(pm, ents, i + 1)
  ELSE
    LET laser == ents[i]
        currentState == pm.laserStates[laser.id]
        pm1 == IF laser.isActive # currentState.isActive
                 THEN Emit([pm EXCEPT !.laserStates[laser.id].isActive = laser.isActive],
                           IF laser.isActive THEN "laser_activated" ELSE "laser_deactivated",
                           laser.id, << >>)
                 ELSE pm
        pm2 == IF laser.direction # currentState.direction
                 THEN Emit([pm1 EXCEPT !.laserStates[laser.id].direction = laser.direction],
                           "laser_rotated", laser.id, << >>)
                 ELSE pm1
    IN UpdateLaserStates(pm2, ents, i + 1)

\* findLaserForBeam: the index of the active emitter whose laser start is
\* nearest to the start of the beam and closer than 50, the first of equally
\* near ones; 0 for null
FindLaserForBeam(beam, ents) ==
  LET near == { i \in OfType(ents, "LaserEmitter") :
                  /\ ents[i].isActive
                  /\ DistSq(GetLaserStart(ents[i]), beam.start) < 50 * 50 }
      d(i) == DistSq(GetLaserStart(ents[i]), beam.start)
  IN IF near = {} THEN 0
     ELSE CHOOSE i \in near :
            \A j \in near : d(i) < d(j) \/ (d(i) = d(j) /\ i <= j)

\* one beam against one cell in updatePowerCellStates: when the beam passes
\* within cellRadius + 5 of the centre of the cell, the laser found for the
\* beam is pushed on the powering lasers of the cell state, and the
\* connection, made if missing, is connected with a laser_hit_cell event
BeamOnCell(pm, ents, c, beam) ==
  LET hitLaser == FindLaserForBeam(beam, ents)
      cellRadius == Max(TILE_SIZE, TILE_SIZE) \div 2
      cell == ents[c]
      laserId == ents[hitLaser].id
      connectionKey == ConnectionKey(laserId, cell.id)
      pushed == [pm EXCEPT !.cellStates[cell.id].poweringLasers = Append(@, laserId)]
      made == IF connectionKey \in DOMAIN pushed.powerStates THEN pushed
              ELSE [pushed EXCEPT !.powerStates =
                      MapSet(@, connectionKey,
                             [laserId |-> laserId, powerCellId |-> cell.id,
                              isConnected |-> FALSE])]
  IN IF hitLaser = 0 THEN pm
     ELSE IF PointToLineDistanceSq(GetCenter(cell), beam.start, beam.end)
               > (cellRadius + 5) * (cellRadius + 5) THEN pm
     ELSE IF made.powerStates[connectionKey].isConnected THEN made
     ELSE Emit([made EXCEPT !.powerStates[connectionKey].isConnected = TRUE],
               "laser_hit_cell", laserId, cell.id)

RECURSIVE BeamsOnCell(_, _, _, _, _)
BeamsOnCell(pm, ents, c, beams, b) ==
  IF b > Len(beams) THEN pm
  ELSE BeamsOnCell(BeamOnCell(pm, ents, c, beams[b]), ents, c, beams, b + 1)

RECURSIVE UpdateCells(_, _, _, _)
\* the second loop of updatePowerCellStates, from the entity at index c on:
\* a cell without a cell state under its id is passed over; the others take
\* the beams, then isPowered = poweringLasers.length > 0 is compared with the
\* isPowered of the cell state and a difference is written to the cell state
\* and to the cell, with a cell_powered or cell_unpowered event
UpdateCells(pm, ents, beams, c) ==
  IF c > Len(ents) THEN [pm |-> pm, entities |-> ents]
  ELSE IF ents[c].type # "PowerCell" \/ ents[c].id \notin DOMAIN pm.cellStates
    THEN UpdateCells(pm, ents, beams, c + 1)
  ELSE
    LET cell == ents[c]
        hit == BeamsOnCell(pm, ents, c, beams, 1)
        cellState == hit.cellStates[cell.id]
        isPowered == cellState.poweringLasers # << >>
    IN IF isPowered # cellState.isPowered
         THEN UpdateCells(
                Emit([hit EXCEPT !.cellStates[cell.id].isPowered = isPowered,
                                 !.cellStates[cell.id].laserPowered = isPowered],
                     IF isPowered THEN "cell_powered" ELSE "cell_unpowered",
                     << >>, cell.id),
                [ents EXCEPT ![c].isPowered = isPowered, ![c].laserPowered = isPowered],
                beams, c + 1)
         ELSE UpdateCells(hit, ents, beams, c + 1)

\* the last loop of updatePowerCellStates: a connected connection whose key,
\* split at the underscores, names in its second piece no cell state, or one
\* whose powering lasers lack the first piece, is disconnected with a
\* laser_lost_cell event
DropLostConnections(pm) ==
  LET lostKeys ==
        { k \in DOMAIN pm.powerStates :
            /\ pm.powerStates[k].isConnected
            /\ \/ SplitCellId(k) \notin DOMAIN pm.cellStates
               \/ LET poweringLasers == pm.cellStates[SplitCellId(k)].poweringLasers
                  IN \A j \in 1..Len(poweringLasers) : poweringLasers[j] # SplitLaserId(k) }
  IN [pm EXCEPT
        !.powerStates = [k \in DOMAIN pm.powerStates |->
                           IF k \in lostKeys
                             THEN [pm.powerStates[k] EXCEPT !.isConnected = FALSE]
                             ELSE pm.powerStates[k]],
        !.events = @ \cup { Event("laser_lost_cell", SplitLaserId(k), SplitCellId(k)) :
                              k \in lostKeys }]

\* updatePowerCellStates(entities, laserBeams): the powering lasers of the
\* cell state of every cell are emptied first, once
UpdatePowerCellStates(pm, ents, beams) ==
  LET cellIds == { ents[i].id : i \in OfType(ents, "PowerCell") }
      emptied == [pm EXCEPT !.cellStates =
                    [id \in DOMAIN pm.cellStates |->
                       IF id \in cellIds
                         THEN [pm.cellStates[id] EXCEPT !.poweringLasers = << >>]
                         ELSE pm.cellStates[id]]]
      updated == UpdateCells(emptied, ents, beams, 1)
  IN [pm |-> DropLostConnections(updated.pm), entities |-> updated.entities]

\* update(entities, laserBeams)
PowerManagerUpdate(pm, ents, beams) ==
  UpdatePowerCellStates(UpdateLaserStates(pm, ents, 1), ents, beams)

\* the loop of onLaserRotated and onLaserToggled over the connections whose
\* key starts with the id of the laser and an underscore
DisconnectLaser(pm, laserId) ==
  LET keys == { k \in DOMAIN pm.powerStates :
                  StartsWithId(k, laserId) /\ pm.powerStates[k].isConnected }
  IN [pm EXCEPT
        !.powerStates = [k \in DOMAIN pm.powerStates |->
                           IF k \in keys
                             THEN [pm.powerStates[k] EXCEPT !.isConnected = FALSE]
                             ELSE pm.powerStates[k]],
        !.events = @ \cup { Event("laser_lost_cell", laserId, pm.powerStates[k].powerCellId) :
                              k \in keys }]

\* onLaserRotated(laser), the laser already turned
OnLaserRotated(pm, laser) ==
  LET pm1 == IF laser.id \in DOMAIN pm.laserStates
               THEN [pm EXCEPT !.laserStates[laser.id].direction = laser.direction]
               ELSE pm
  IN Emit(DisconnectLaser(pm1, laser.id), "laser_rotated", laser.id, << >>)

\* onLaserToggled(laser), the laser already switched: nothing is done when a
\* laser state exists and already holds the isActive of the laser
OnLaserToggled(pm, laser) ==
  IF laser.id \in DOMAIN pm.laserStates
     /\ pm.laserStates[laser.id].isActive = laser.isActive
    THEN pm
  ELSE
    LET pm1 == IF laser.id \in DOMAIN pm.laserStates
                 THEN [pm EXCEPT !.laserStates[laser.id].isActive = laser.isActive]
                 ELSE pm
    IN IF laser.isActive
         THEN Emit(pm1, "laser_activated", laser.id, << >>)
         ELSE Emit(DisconnectLaser(pm1, laser.id), "laser_deactivated", laser.id, << >>)

(***************************************************************************)
(* dynamicLevel.js LevelManager.checkLevelCompletion                       *)
(***************************************************************************)
\* completion as updateObjectives counts it: some cell, and all powered
CheckLevelCompletionNeedingCells(rms, ents, pos, complete) ==
  LET currentRoom == GetRoomAtWorldPosition(rms, PlayerCenter(pos))
      powerCells == OfType(ents, "PowerCell")
  IN /\ ~complete
     /\ currentRoom # 0
     /\ rms[currentRoom].isExit
     /\ powerCells # {}
     /\ \A c \in powerCells : ents[c].isPowered

\* TRUE when completeLevelWithMessage is called
CheckLevelCompletion(rms, ents, pos, complete) ==
  LET currentRoom == GetRoomAtWorldPosition(rms, PlayerCenter(pos))
      powerCells == OfType(ents, "PowerCell")
      poweredCells == { c \in powerCells : ents[c].isPowered }
  IN /\ ~complete
     /\ currentRoom # 0
     /\ rms[currentRoom].isExit
     /\ \/ Cardinality(powerCells) = 0
        \/ Cardinality(poweredCells) = Cardinality(powerCells)

(***************************************************************************)
(* Levels as generateLevel leaves them.  Three rooms of 6 x 5 tiles in a   *)
(* row: the start room, made from a start tile and holding the player      *)
(* prefab, and two rooms made from other tiles, the last one the exit.     *)
(* The border of each room is wall but for the doorway tiles in row 2. No  *)
(* emitter stands in row 2, so no beam crosses a doorway and the doors,    *)
(* like the buttons (not solid, off the rows and columns of the emitters), *)
(* take no part in a trace and are left out of the entity list.            *)
(***************************************************************************)
BorderWalls(w, h, doorways) ==
  { t \in (0..(w - 1)) \X (0..(h - 1)) :
      t[1] = 0 \/ t[2] = 0 \/ t[1] = w - 1 \/ t[2] = h - 1 } \ doorways

RoomAt(tx, exit, doorways) ==
  [worldX |-> tx * TILE_SIZE, worldY |-> 0, tileWidth |-> 6, tileHeight |-> 5,
   isExit |-> exit, collisionMap |-> BorderWalls(6, 5, doorways)]

ThreeRooms ==
  << RoomAt(0, FALSE, {<<5, 2>>}),
     RoomAt(6, FALSE, {<<0, 2>>, <<5, 2>>}),
     RoomAt(12, TRUE, {<<0, 2>>}) >>

PlayerStart == Vec(2 * TILE_SIZE, 3 * TILE_SIZE)

\* where the player is seen: at the start, in the exit room, and in the
\* second room between the emitter and the cell
Spots == { PlayerStart, Vec(14 * TILE_SIZE, 3 * TILE_SIZE), Vec(9 * TILE_SIZE, TILE_SIZE) }

\* one emitter facing its cell
LevelSingle ==
  << LaserEmitter(<<"emitter1">>, 7, 1, "E"), PowerCell(<<"cell1">>, 10, 1) >>

\* the second and the third room made from one template: createEntity gives
\* the entities of both rooms the ids of the prefabs
LevelTwins ==
  << LaserEmitter(<<"emitter1">>, 7, 1, "E"), PowerCell(<<"cell1">>, 10, 1),
     LaserEmitter(<<"emitter1">>, 13, 1, "E"), PowerCell(<<"cell1">>, 16, 1) >>

\* two templates, each with an emitter and a cell
LevelPair ==
  << LaserEmitter(<<"emitter1">>, 7, 1, "E"), PowerCell(<<"cell1">>, 10, 1),
     LaserEmitter(<<"emitter2">>, 13, 1, "E"), PowerCell(<<"cell2">>, 16, 1) >>

\* a template "straight" with one cell at (4, 1) and no emitter, after
\* TileLoader.addLasersToMatch: the emitter is put on the first free inner
\* tile (1, 1), faces East and is named auto_emitter_straight_1
LevelBalanced ==
  << PowerCell(<<"cell1">>, 10, 1),
     LaserEmitter(<<"auto", "emitter", "straight", "1">>, 7, 1, "E") >>

\* no power cell in the level
LevelNoCells == << LaserEmitter(<<"emitter1">>, 7, 1, "E") >>

Layouts == { LevelSingle, LevelTwins, LevelPair, LevelBalanced, LevelNoCells }

(***************************************************************************)
(* What the properties speak of, told from the places of the entities      *)
(* alone.                                                                  *)
(***************************************************************************)
TileOf(e) == <<e.x \div TILE_SIZE, e.y \div TILE_SIZE>>

\* a wall tile of a room, or the tile of a solid entity
BlockedTile(ents, rms, t) ==
  \/ \E r \in 1..Len(rms) :
       <<t[1] - rms[r].worldX \div TILE_SIZE, t[2] - rms[r].worldY \div TILE_SIZE>>
         \in rms[r].collisionMap
  \/ \E i \in 1..Len(ents) : ents[i].solid /\ TileOf(ents[i]) = t

\* the cell at index c stands in the line of the emitter at index i, with
\* nothing solid between them and its near face within MaxDistance
Reaches(ents, rms, i, c) ==
  LET d == GetDirectionVector(ents[i])
      a == TileOf(ents[i])
  IN \E k \in 1..(MaxDistance \div TILE_SIZE) :
       /\ TileOf(ents[c]) = <<a[1] + k * d.x, a[2] + k * d.y>>
       /\ \A j \in 1..(k - 1) : ~BlockedTile(ents, rms, <<a[1] + j * d.x, a[2] + j * d.y>>)

\* the cells some active emitter reaches
ReachedCells(ents, rms) ==
  { c \in OfType(ents, "PowerCell") :
      \E i \in OfType(ents, "LaserEmitter") : ents[i].isActive /\ Reaches(ents, rms, i, c) }

\* the room that holds the centre of the player is flagged isExit
PlayerInExitRoom(rms, pos) ==
  \E r \in 1..Len(rms) :
    /\ ContainsWorldPosition(rms[r], PlayerCenter(pos))
    /\ \A q \in 1..(r - 1) : ~ContainsWorldPosition(rms[q], PlayerCenter(pos))
    /\ rms[r].isExit

AllCellsPowered(ents) == \A c \in OfType(ents, "PowerCell") : ents[c].isPowered

(***************************************************************************)
(* The game in play as a state machine.  A step is one call of             *)
(* Game.updatePlaying (Tick), one interaction of the player with an        *)
(* emitter or with the button of its room, or a restart of the level.  An  *)
(* interaction runs inside a tick, in the first or the second call of      *)
(* updatePlayerInteractions, and touches only the emitter and the maps of  *)
(* the power manager; it is a step of its own, before or after the rest of *)
(* that tick.  The generation variables stay as they are.                  *)
(***************************************************************************)
MaxQuiet == 2

PowerManager == [laserStates |-> laserStates, cellStates |-> cellStates,
                 powerStates |-> powerStates, events |-> {}]

SetPowerManager(pm) ==
  /\ laserStates' = pm.laserStates
  /\ cellStates' = pm.cellStates
  /\ powerStates' = pm.powerStates
  /\ events' = pm.events

\* what generateLevel leaves of a level: worldManager.initialize clears
\* levelComplete, the entities are made anew and the player is put at the
\* start
LoadLevel(layout) ==
  /\ levelRooms' = ThreeRooms
  /\ levelComplete' = FALSE
  /\ entities' = layout
  /\ player' = PlayerStart

InitTick ==
  /\ catalog = FallbackTiles /\ W = NewWorldManager /\ levelNumber = 1
  /\ genResult = "none" /\ remembered = NoCall /\ between = FALSE
  /\ autoDoors = << >>
  /\ gameState = "playing" /\ lives = 1
  /\ levelRooms = ThreeRooms /\ levelComplete = FALSE
  /\ entities \in Layouts /\ player = PlayerStart
  /\ laserStates = EmptyMap /\ cellStates = EmptyMap /\ powerStates = EmptyMap
  /\ events = {} /\ completionSignal = FALSE
  /\ tickPre = NoTick /\ quiet = 0 /\ lost = {}
  /\ NoDoorLevel /\ NoConnection
  /\ Idle

\* Game.updatePlaying.  levelManager.update checks the completion first;
\* the power manager is initialized when it holds no laser state (the
\* entity list holds the player and is not empty); the player moves, to one
\* of the spots; the laser system traces the beams; the power manager is
\* updated with them; a beam on the player is the death of the player, with
\* the last life the end of the game, else a restart of the level (layout:
\* the level generateLevel makes then) and a cleared power manager.
\* Game.update reads the state before handleGlobalInput: rest is the state
\* the key handling of the frame left (PAUSED in the frame of Escape).
UpdatePlaying(rest) ==
  /\ gameState = "playing"
  /\ \E fires \in {CheckLevelCompletion(levelRooms, entities, player, levelComplete)},
        traced \in {LaserSystemUpdate(entities, levelRooms)} :
       \E updated \in {PowerManagerUpdate(
                          IF DOMAIN laserStates = {}
                            THEN PowerManagerInitialize(PowerManager, entities)
                            ELSE PowerManager,
                          traced.entities, traced.activeBeams)} :
         /\ completionSignal' = fires
         /\ tickPre' = [ticked |-> TRUE,
                        inExit |-> PlayerInExitRoom(levelRooms, player),
                        allPowered |-> AllCellsPowered(entities),
                        levelComplete |-> levelComplete]
         /\ \E spot \in Spots :
              \E dead \in {CheckPlayerLaserCollision(spot, traced.activeBeams)} :
                /\ lives' = IF dead THEN lives - 1 ELSE lives
                /\ gameState' = IF dead /\ lives - 1 <= 0 THEN "gameOver"
                                ELSE IF fires THEN "levelComplete" ELSE rest
                /\ IF dead /\ lives - 1 > 0
                     THEN /\ \E layout \in Layouts : entities' = layout
                          /\ levelRooms' = ThreeRooms /\ levelComplete' = FALSE
                          /\ player' = PlayerStart
                          /\ SetPowerManager(ClearStates(updated.pm))
                          /\ quiet' = 0 /\ lost' = {}
                     ELSE /\ levelComplete' = (levelComplete \/ fires)
                          /\ entities' = updated.entities
                          /\ player' = spot
                          /\ SetPowerManager(updated.pm)
                          /\ quiet' = Min(quiet + 1, MaxQuiet)
                          /\ UNCHANGED <<levelRooms, lost>>
  /\ UNCHANGED <<genVars, pureVars, doorVars, timeVars>>

\* a frame of the PLAYING state with no key of handleGlobalInput pressed
Tick ==
  UpdatePlaying("playing")

\* the cells the emitter at index i powers: it is active, reaches them and
\* they are powered
PoweredBy(i) ==
  { c \in OfType(entities, "PowerCell") :
      entities[i].isActive /\ entities[c].isPowered
      /\ Reaches(entities, levelRooms, i, c) }

NextDirection(d) ==
  CASE d = "N" -> "E" [] d = "E" -> "S" [] d = "S" -> "W" [] OTHER -> "N"

\* LaserEmitter.rotate on the emitter at index i, its cooldown over
Rotate(i) ==
  /\ gameState = "playing"
  /\ i \in OfType(entities, "LaserEmitter")
  /\ entities' = [entities EXCEPT ![i].direction = NextDirection(@)]
  /\ \E pm \in {OnLaserRotated(PowerManager, entities'[i])} : SetPowerManager(pm)
  /\ completionSignal' = FALSE /\ tickPre' = NoTick /\ quiet' = 0
  /\ lost' = PoweredBy(i)
  /\ UNCHANGED <<gameState, lives, levelRooms, levelComplete, player, genVars, pureVars, doorVars, timeVars>>

\* LaserEmitter.setActive(on) on the emitter at index i, as the button of
\* its room calls it; a call with the state the emitter has changes nothing
SetActive(i, on) ==
  /\ gameState = "playing"
  /\ i \in OfType(entities, "LaserEmitter")
  /\ entities[i].isActive # on
  /\ entities' = [entities EXCEPT ![i].isActive = on]
  /\ \E pm \in {OnLaserToggled(PowerManager, entities'[i])} : SetPowerManager(pm)
  /\ completionSignal' = FALSE /\ tickPre' = NoTick /\ quiet' = 0
  /\ lost' = IF on THEN {} ELSE PoweredBy(i)
  /\ UNCHANGED <<gameState, lives, levelRooms, levelComplete, player, genVars, pureVars, doorVars, timeVars>>

\* KeyR in the PLAYING state: Game.restartLevel generates the level again
\* and clears the power manager
RestartLevel(layout) ==
  /\ gameState = "playing"
  /\ LoadLevel(layout)
  /\ SetPowerManager(ClearStates(PowerManager))
  /\ completionSignal' = FALSE /\ tickPre' = NoTick
  /\ quiet' = 0 /\ lost' = {}
  /\ UNCHANGED <<gameState, lives, genVars, pureVars, doorVars, timeVars>>

NextTick ==
  \/ Tick
  \/ \E i \in 1..4 : Rotate(i)
  \/ \E i \in 1..4, on \in BOOLEAN : SetActive(i, on)
  \/ \E layout \in Layouts : RestartLevel(layout)

SpecTick == InitTick /\ [][NextTick]_vars

(***************************************************************************)
(* Properties of the game in play                                          *)
(***************************************************************************)
\* C4: when the power update runs again on the same entities and the same
\* beams (a second or later tick since the emitters last changed), it emits
\* no cell_powered and no laser_hit_cell event.
C4_NoReEmission ==
  quiet >= 2 =>
    \A ev \in events : ev.type \notin {"cell_powered", "laser_hit_cell"}

\* C5: a cell that was powered by an emitter reaching it is unpowered one
\* tick after that emitter was turned off or rotated, unless an active
\* emitter reaches the cell.
C5_UnpoweredWithinOneTick ==
  quiet >= 1 =>
    \A c \in lost :
      c \notin ReachedCells(entities, levelRooms) => ~entities[c].isPowered

C7_SignalIffExitAndPowered ==
  (tickPre.ticked /\ ~tickPre.levelComplete) =>
    (completionSignal <=> (tickPre.inExit /\ tickPre.allPowered))

\* C7 witness: the signal fired in a tick of a level with power cells
C7_Witness ==
  /\ tickPre.ticked /\ ~tickPre.levelComplete /\ completionSignal
  /\ tickPre.inExit /\ tickPre.allPowered
  /\ OfType(entities, "PowerCell") # {}

(***************************************************************************)
(* traceLaser called on its own.  The start points are those of an emitter *)
(* (two pixels ahead of its centre); the directions are the four           *)
(* DIRECTIONS; the rooms stand on the tile grid of the world or off it, as *)
(* calculateRoomWorldPosition leaves them when it adds an average width;   *)
(* the entities of a room stand on the grid of the room.                   *)
(***************************************************************************)
RoomAtWorld(wx, wy, doorways) ==
  [worldX |-> wx, worldY |-> wy, tileWidth |-> 6, tileHeight |-> 5,
   isExit |-> FALSE, collisionMap |-> BorderWalls(6, 5, doorways)]

\* no room; a room on the grid; a room one pixel short of the grid; a room
\* far to the east, off the grid
TraceRooms ==
  { << >>, <<RoomAtWorld(0, 0, {})>>, <<RoomAtWorld(63, 0, {})>>,
    <<RoomAtWorld(2030, 0, {})>> }

PowerCellAt(id, x, y) == [PowerCell(id, 0, 0) EXCEPT !.x = x, !.y = y]

\* a door closed or open with or without a cell behind it; a door on a
\* tile of the border of the room; an emitter before a cell; a cell in the
\* room off the grid
TraceEntities ==
  { << >>,
    <<AutoDoor(<<"door">>, 192, 64, FALSE)>>,
    <<AutoDoor(<<"door">>, 192, 64, TRUE)>>,
    <<PowerCell(<<"cell1">>, 4, 1), AutoDoor(<<"door">>, 192, 64, FALSE)>>,
    <<PowerCell(<<"cell1">>, 4, 1), AutoDoor(<<"door">>, 192, 64, TRUE)>>,
    <<AutoDoor(<<"door">>, 320, 64, FALSE)>>,
    <<AutoDoor(<<"door">>, 320, 64, TRUE)>>,
    <<LaserEmitter(<<"emitter2">>, 2, 1, "E"), PowerCell(<<"cell1">>, 4, 1)>>,
    <<PowerCellAt(<<"cell1">>, 127, 64)>> }

TraceStarts == { Vec(98, 96), Vec(285, 96), Vec(34, 96) }

DirectionVectors == { Vec(0, -1), Vec(0, 1), Vec(1, 0), Vec(-1, 0) }

TraceCalls ==
  [op : {"traceLaser"}, start : TraceStarts, direction : DirectionVectors,
   entities : TraceEntities, rooms : TraceRooms, walls : BOOLEAN]

InitTrace ==
  /\ catalog = FallbackTiles /\ W = NewWorldManager /\ levelNumber = 1
  /\ genResult = "none" /\ remembered = NoCall /\ between = FALSE
  /\ autoDoors = << >>
  /\ InMenu
  /\ call \in TraceCalls /\ returned = NoResult

\* collisionDetector.traceLaser(start, direction, entities, callback), the
\* callback hasCollisionAt of a level with these entities and rooms, or none
Trace ==
  /\ call.op = "traceLaser" /\ ~returned.done
  /\ \E r \in { IF call.walls
                  THEN TraceLaser(call.start, call.direction, call.entities, call.rooms)
                  ELSE TraceLaserAlone(call.start, call.direction, call.entities) } :
       returned' = [done |-> TRUE, endPoint |-> r.endPoint,
                    hitEntities |-> r.hitEntities]
  /\ UNCHANGED <<call, genVars, tickVars, doorVars, timeVars>>

SpecTrace == InitTrace /\ [][Trace]_vars

Traced == call.op = "traceLaser" /\ returned.done

\* the distance from the start to a point of the ray
Along(c, p) == Abs(p.x - c.start.x) + Abs(p.y - c.start.y)

\* C11: the end point traceLaser returns is never farther from the start
\* than maxDistance.
C11_EndWithinMaxDistance ==
  Traced => Along(call, returned.endPoint) <= MaxDistance

PointAt(c, d) == VAdd(c.start, VScale(c.direction, d))

\* the distance from the start to the face of the entity turned to it, and
\* to the face turned away
NearDist(c, e) ==
  IF c.direction.x = 1 THEN e.x - c.start.x
  ELSE IF c.direction.x = -1 THEN c.start.x - (e.x + TILE_SIZE)
  ELSE IF c.direction.y = 1 THEN e.y - c.start.y
  ELSE c.start.y - (e.y + TILE_SIZE)

FarDist(c, e) == NearDist(c, e) + TILE_SIZE

\* the line of the ray runs between two faces of the box of the entity
Across(c, e) ==
  IF c.direction.x # 0
    THEN c.start.y > e.y /\ c.start.y < e.y + TILE_SIZE
    ELSE c.start.x > e.x /\ c.start.x < e.x + TILE_SIZE

\* the ray is aimed at the entity: its box lies ahead of the start and
\* begins before maxDistance
OnRay(c, e) ==
  Across(c, e) /\ NearDist(c, e) >= 0 /\ NearDist(c, e) < MaxDistance

\* solid and not open, and no emitter
Blocking(e) ==
  e.solid /\ ~(IsDoor(e) /\ e.isOpen) /\ e.type # "LaserEmitter"

\* the wall predicate is true at a point of the ray closer than maxDistance
WallOnRay(c) ==
  /\ c.walls
  /\ \E d \in 0..(MaxDistance - 1) :
       HasCollisionAt(PointAt(c, d), c.entities, c.rooms)

\* a solid entity, not open, whose box the ray meets closer than
\* maxDistance, the start inside the box or before it
SolidOnRay(c) ==
  \E i \in 1..Len(c.entities) :
    /\ Blocking(c.entities[i]) /\ Across(c, c.entities[i])
    /\ FarDist(c, c.entities[i]) >= 0 /\ NearDist(c, c.entities[i]) < MaxDistance

\* C12: when a wall or a solid entity that is not open lies on the ray
\* closer than maxDistance, the end point is closer to the start than
\* maxDistance.
C12_TruncatedWhenObstructed ==
  (Traced /\ (WallOnRay(call) \/ SolidOnRay(call)))
    => Along(call, returned.endPoint) < MaxDistance

\* a set cell of the collision map of a room at the position, outside the
\* box of every door
WallTileAt(pos, ents, rms) ==
  /\ \E r \in 1..Len(rms) :
       /\ ContainsWorldPosition(rms[r], pos)
       /\ <<WorldToLocal(rms[r], pos).x, WorldToLocal(rms[r], pos).y>>
            \in rms[r].collisionMap
  /\ ~\E i \in 1..Len(ents) :
        /\ IsDoor(ents[i])
        /\ pos.x >= ents[i].x /\ pos.x < ents[i].x + TILE_SIZE
        /\ pos.y >= ents[i].y /\ pos.y < ents[i].y + TILE_SIZE

\* nothing but open doors and entities that are not solid stands on the ray
Unobstructed(c) ==
  /\ ~SolidOnRay(c)
  /\ c.walls => \A d \in 0..MaxDistance : ~WallTileAt(PointAt(c, d), c.entities, c.rooms)

FirstBlocking(c, i) ==
  /\ Blocking(c.entities[i]) /\ OnRay(c, c.entities[i])
  /\ \A j \in 1..Len(c.entities) :
       (Blocking(c.entities[j]) /\ OnRay(c, c.entities[j]))
         => NearDist(c, c.entities[j]) >= NearDist(c, c.entities[i])
  /\ c.walls => \A d \in 0..(NearDist(c, c.entities[i]) - 1) :
                  ~HasCollisionAt(PointAt(c, d), c.entities, c.rooms)

\* C14: the beam ends on the near face of the first solid entity, not open,
\* it is aimed at, and no entity behind that face is among the hit entities.
C14_EndsAtNearFace ==
  Traced =>
    \A i \in 1..Len(call.entities) :
      FirstBlocking(call, i) =>
        /\ returned.endPoint = PointAt(call, NearDist(call, call.entities[i]))
        /\ \A k \in 1..Len(returned.hitEntities) :
             NearDist(call, call.entities[returned.hitEntities[k]])
               <= NearDist(call, call.entities[i])

(***************************************************************************)
(* dungeonGen.js TileLoader: the validation of a fetched template.  A      *)
(* template is [id, size, collision, prefabs]: size is <<width, height>>,  *)
(* collision the rows of the mask from the top, each a sequence of "#" and *)
(* ".", and a prefab is [type, pos, dir, id] with pos = <<x, y>>.  The     *)
(* code counts rows and columns from 0.  A step that throws returns        *)
(* Thrown; one that returns, Returned(template).                           *)
(***************************************************************************)
Thrown == [threw |-> TRUE]

Returned(tile) == [threw |-> FALSE, tile |-> tile]

\* collision[y][x] where the row exists; "undefined" outside the row
CharAt(collision, x, y) ==
  IF x >= 0 /\ x < Len(collision[y + 1]) THEN collision[y + 1][x + 1]
  ELSE "undefined"

\* tile.prefabs.some(p => p.pos[0] === x && p.pos[1] === y)
Occupied(tile, x, y) ==
  \E k \in 1..Len(tile.prefabs) : tile.prefabs[k].pos = <<x, y>>

\* the indices of the prefabs of a type, in the order of the list
RECURSIVE PrefabsOfType(_, _, _)
PrefabsOfType(prefabs, type, k) ==
  IF k > Len(prefabs) THEN << >>
  ELSE (IF prefabs[k].type = type THEN <<k>> ELSE << >>)
         \o PrefabsOfType(prefabs, type, k + 1)

RECURSIVE ScanSafePositions(_, _)
\* the loops of findSafePositions from the k-th inner cell on, row by row
ScanSafePositions(tile, k) ==
  LET w == tile.size[1] - 2
      h == tile.size[2] - 2
      x == 1 + (k % w)
      y == 1 + (k \div w)
  IN IF w <= 0 \/ h <= 0 \/ k >= w * h THEN << >>
     ELSE (IF /\ y < Len(tile.collision)
              /\ x < Len(tile.collision[y + 1])
              /\ CharAt(tile.collision, x, y) = "."
              /\ ~Occupied(tile, x, y)
             THEN << <<x, y>> >> ELSE << >>)
            \o ScanSafePositions(tile, k + 1)

\* TileLoader.findSafePositions
FindSafePositions(tile, count) ==
  LET all == ScanSafePositions(tile, 0)
  IN SubSeq(all, 1, Min(count, Len(all)))

\* TileLoader.addPowerCellsToMatch
AddPowerCellsToMatch(tile, lasers, powerCells) ==
  LET needed == Len(lasers) - Len(powerCells)
      safePositions == FindSafePositions(tile, needed)
  IN [tile EXCEPT !.prefabs = @ \o
        [i \in 1..Min(needed, Len(safePositions)) |->
           [type |-> "PowerCell", pos |-> safePositions[i], dir |-> "none",
            id |-> <<"auto", "cell">> \o tile.id \o <<i + Len(powerCells)>>]]]

\* TileLoader.getBestLaserDirection: towards the centre of the template
GetBestLaserDirection(tile, pos) ==
  LET dx2 == tile.size[1] - 2 * pos[1]
      dy2 == tile.size[2] - 2 * pos[2]
  IN IF Abs(dx2) > Abs(dy2) THEN (IF dx2 > 0 THEN "E" ELSE "W")
     ELSE (IF dy2 > 0 THEN "S" ELSE "N")

\* TileLoader.addLasersToMatch
AddLasersToMatch(tile, lasers, powerCells) ==
  LET needed == Len(powerCells) - Len(lasers)
      safePositions == FindSafePositions(tile, needed)
  IN [tile EXCEPT !.prefabs = @ \o
        [i \in 1..Min(needed, Len(safePositions)) |->
           [type |-> "LaserEmitter", pos |-> safePositions[i],
            dir |-> GetBestLaserDirection(tile, safePositions[i]),
            id |-> <<"auto", "emitter">> \o tile.id \o <<i + Len(lasers)>>]]]

\* TileLoader.findSafePositionNear: reading collision[targetY].length
\* throws when the row does not exist; the code tests the row only from
\* above.  found is false for null.
FindSafePositionNear(tile, targetX, targetY) ==
  IF targetY >= Len(tile.collision) THEN [threw |-> FALSE, found |-> FALSE]
  ELSE IF targetY < 0 THEN [threw |-> TRUE, found |-> FALSE]
  ELSE [threw |-> FALSE,
        found |-> /\ targetX < Len(tile.collision[targetY + 1])
                  /\ CharAt(tile.collision, targetX, targetY) = "."
                  /\ ~Occupied(tile, targetX, targetY)]

RECURSIVE AlignFrom(_, _, _, _)
\* the loop of alignLasersAndPowerCells from the i-th pair on
AlignFrom(tile, lasers, powerCells, i) ==
  IF i > Min(Len(lasers), Len(powerCells)) THEN Returned(tile)
  ELSE LET laser == tile.prefabs[lasers[i]]
           c == powerCells[i]
           powerCell == tile.prefabs[c]
       IN IF laser.dir \in {"E", "W"}
            THEN LET safePos == FindSafePositionNear(tile, powerCell.pos[1], laser.pos[2])
                 IN IF safePos.threw THEN Thrown
                    ELSE AlignFrom(
                           IF safePos.found
                             THEN [tile EXCEPT !.prefabs[c].pos[2] = laser.pos[2]]
                             ELSE tile,
                           lasers, powerCells, i + 1)
          ELSE IF laser.dir \in {"N", "S"}
            THEN LET safePos == FindSafePositionNear(tile, laser.pos[1], powerCell.pos[2])
                 IN IF safePos.threw THEN Thrown
                    ELSE AlignFrom(
                           IF safePos.found
                             THEN [tile EXCEPT !.prefabs[c].pos[1] = laser.pos[1]]
                             ELSE tile,
                           lasers, powerCells, i + 1)
          ELSE AlignFrom(tile, lasers, powerCells, i + 1)

\* TileLoader.alignLasersAndPowerCells
AlignLasersAndPowerCells(tile) ==
  LET lasers == PrefabsOfType(tile.prefabs, "LaserEmitter", 1)
      powerCells == PrefabsOfType(tile.prefabs, "PowerCell", 1)
  IN IF lasers = << >> \/ powerCells = << >> THEN Returned(tile)
     ELSE AlignFrom(tile, lasers, powerCells, 1)

\* TileLoader.balanceLaserAndPowerCells
BalanceLaserAndPowerCells(tile) ==
  LET lasers == PrefabsOfType(tile.prefabs, "LaserEmitter", 1)
      powerCells == PrefabsOfType(tile.prefabs, "PowerCell", 1)
  IN AlignLasersAndPowerCells(
       IF Len(lasers) > Len(powerCells) THEN AddPowerCellsToMatch(tile, lasers, powerCells)
       ELSE IF Len(lasers) < Len(powerCells) THEN AddLasersToMatch(tile, lasers, powerCells)
       ELSE tile)

RECURSIVE KeepOutsideWalls(_, _)
\* the filter of removeEntitiesInWalls from the k-th prefab on: a prefab
\* below the mask, right of its row or on a "#" is dropped; a row above the
\* mask is read without a test and the read throws
KeepOutsideWalls(tile, k) ==
  IF k > Len(tile.prefabs) THEN [threw |-> FALSE, kept |-> << >>]
  ELSE LET x == tile.prefabs[k].pos[1]
           y == tile.prefabs[k].pos[2]
           rest == KeepOutsideWalls(tile, k + 1)
       IN IF y >= Len(tile.collision) THEN rest
          ELSE IF y < 0 THEN [threw |-> TRUE, kept |-> << >>]
          ELSE IF x >= Len(tile.collision[y + 1]) THEN rest
          ELSE IF CharAt(tile.collision, x, y) = "#" THEN rest
          ELSE IF rest.threw THEN rest
          ELSE [threw |-> FALSE, kept |-> <<tile.prefabs[k]>> \o rest.kept]

\* TileLoader.removeEntitiesInWalls
RemoveEntitiesInWalls(tile) ==
  LET r == KeepOutsideWalls(tile, 1)
  IN IF r.threw THEN Thrown ELSE Returned([tile EXCEPT !.prefabs = r.kept])

\* TileLoader.validateAndFixTile, on the deep clone of the template
ValidateAndFixTile(tile) ==
  LET balanced == BalanceLaserAndPowerCells(tile)
  IN IF balanced.threw THEN Thrown ELSE RemoveEntitiesInWalls(balanced.tile)

(***************************************************************************)
(* The templates handed to the validation: a 4 x 4 template with walls on  *)
(* its border, some of its four inner cells walled, or a mask cut short    *)
(* after two rows; up to two emitters and up to one cell, on inner cells,  *)
(* on the border wall, above the mask or left of it.                      *)
(***************************************************************************)
MaskRow(cells) == [x \in 1..4 |-> IF (x - 1) \in cells THEN "." ELSE "#"]

Mask(top, bottom) == <<MaskRow({}), MaskRow(top), MaskRow(bottom), MaskRow({})>>

TemplateMasks ==
  { Mask({1, 2}, {1, 2}), Mask({2}, {1, 2}), Mask({}, {2}), Mask({}, {}),
    <<MaskRow({}), MaskRow({1, 2})>> }

TemplateLaser(n, pos, dir) ==
  [type |-> "LaserEmitter", pos |-> pos, dir |-> dir, id |-> <<"laser", n>>]

TemplateCell(n, pos) ==
  [type |-> "PowerCell", pos |-> pos, dir |-> "none", id |-> <<"cell", n>>]

LaserPositions == { <<1, 1>>, <<2, 1>>, <<1, 2>>, <<0, 1>>, <<2, -1>>, <<-1, 2>> }

LaserDirs == { "E", "S" }

TemplateLasers ==
  { << >> }
    \cup { <<TemplateLaser(1, p, d)>> : p \in LaserPositions, d \in LaserDirs }
    \cup { <<TemplateLaser(1, p[1], d[1]), TemplateLaser(2, p[2], d[2])>> :
             p \in LaserPositions \X LaserPositions, d \in LaserDirs \X LaserDirs }

TemplateCells == { << >>, <<TemplateCell(1, <<2, 2>>)>> }

Templates ==
  { [id |-> <<"room">>, size |-> <<4, 4>>, collision |-> mask, prefabs |-> ls \o cs] :
      mask \in TemplateMasks, ls \in TemplateLasers, cs \in TemplateCells }

ValidateCalls == [op : {"validateAndFixTile"}, tile : Templates]

InitValidate ==
  /\ catalog = FallbackTiles /\ W = NewWorldManager /\ levelNumber = 1
  /\ genResult = "none" /\ remembered = NoCall /\ between = FALSE
  /\ autoDoors = << >>
  /\ InMenu
  /\ call \in ValidateCalls /\ returned = NoResult

\* doLoadTiles for one fetched template: the validated template is stored
\* in the catalog; a throw of the validation is caught, the template is not
\* stored and the load of this template returns null
Validate ==
  /\ call.op = "validateAndFixTile"
  /\ ~returned.done
  /\ \E r \in {ValidateAndFixTile(call.tile)} :
       returned' = IF r.threw THEN [done |-> TRUE, stored |-> FALSE]
                   ELSE [done |-> TRUE, stored |-> TRUE, tile |-> r.tile]
  /\ UNCHANGED <<call, genVars, tickVars, doorVars, timeVars>>

SpecValidate == InitValidate /\ [][Validate]_vars

Validated == call.op = "validateAndFixTile" /\ returned.done

CountOfType(tile, type) == Len(PrefabsOfType(tile.prefabs, type, 1))

\* the prefab stands on a cell of the mask that is not a wall
OnOpenCell(tile, prefab) ==
  /\ prefab.pos[2] >= 0
  /\ prefab.pos[2] < Len(tile.collision)
  /\ CharAt(tile.collision, prefab.pos[1], prefab.pos[2]) = "."

\* C15: a template with L >= 1 emitters and no cell holds, after the
\* validation, exactly L cells, each on a cell of the mask that is not a
\* wall and that no other prefab stands on, no two on the same cell
C15_CellsAddedToMatch ==
  (Validated /\ CountOfType(call.tile, "LaserEmitter") >= 1
             /\ CountOfType(call.tile, "PowerCell") = 0)
    => /\ returned.stored
       /\ CountOfType(returned.tile, "PowerCell") = CountOfType(call.tile, "LaserEmitter")
       /\ \A k \in 1..Len(returned.tile.prefabs) :
            returned.tile.prefabs[k].type = "PowerCell"
              => /\ OnOpenCell(returned.tile, returned.tile.prefabs[k])
                 /\ \A j \in 1..Len(returned.tile.prefabs) :
                      j # k => returned.tile.prefabs[j].pos # returned.tile.prefabs[k].pos

\* C17: the validation of a fetched template returns without throwing and
\* the template is stored, whatever the coordinates and numbers of its
\* prefabs and whatever its mask
C17_ValidationNeverBlocks == Validated => returned.stored

(***************************************************************************)
(* dynamicLevel.js: the AutoDoors generateLevel creates, room by room.     *)
(* doors is the list of the AutoDoor entities of this.entities in creation *)
(* order; the id of a door holds the room that created it and the          *)
(* direction to the room behind it.  A template gives the exit of a side   *)
(* as a cell in the middle of that side (createFallbackTiles: E at [3, 2]  *)
(* and W at [0, 2] of a 4 x 4 room).                                       *)
(***************************************************************************)
Offset(dir) ==
  CASE dir = "N" -> <<0, 0 - 1>> [] dir = "S" -> <<0, 1>>
    [] dir = "E" -> <<1, 0>> [] dir = "W" -> <<0 - 1, 0>>

\* the tile row or column of a pixel: Math.floor(v / TILE_SIZE) * TILE_SIZE
FloorToTile(v) == (v \div TILE_SIZE) * TILE_SIZE

\* findClosestAdjacencyPoint(room1, room2, direction)
FindClosestAdjacencyPoint(room1, direction) ==
  LET midX == FloorToTile((room1.worldX + room1.worldX + room1.width) \div 2)
      midY == FloorToTile((room1.worldY + room1.worldY + room1.height) \div 2)
  IN CASE direction = "N" -> Vec(FloorToTile(midX), FloorToTile(room1.worldY))
       [] direction = "S" -> Vec(FloorToTile(midX),
                                 FloorToTile(room1.worldY + room1.height - TILE_SIZE))
       [] direction = "E" -> Vec(FloorToTile(room1.worldX + room1.width - TILE_SIZE),
                                 FloorToTile(midY))
       [] direction = "W" -> Vec(FloorToTile(room1.worldX), FloorToTile(midY))

\* findSharedPositionBetweenRooms(room1, room2, direction)
FindSharedPositionBetweenRooms(room1, room2, direction) ==
  LET overlapLeft == Max(room1.worldX, room2.worldX)
      overlapRight == Min(room1.worldX + room1.width, room2.worldX + room2.width)
      overlapTop == Max(room1.worldY, room2.worldY)
      overlapBottom == Min(room1.worldY + room1.height, room2.worldY + room2.height)
      midX == FloorToTile((overlapLeft + overlapRight) \div 2)
      midY == FloorToTile((overlapTop + overlapBottom) \div 2)
  IN IF overlapLeft >= overlapRight \/ overlapTop >= overlapBottom
       THEN FindClosestAdjacencyPoint(room1, direction)
     ELSE CASE direction = "N" -> Vec(midX, overlapTop)
            [] direction = "S" -> Vec(midX, overlapBottom - TILE_SIZE)
            [] direction = "E" -> Vec(overlapRight - TILE_SIZE, midY)
            [] direction = "W" -> Vec(overlapLeft, midY)

\* hasAutoDoorAtPosition(worldPos): a door closer than 0.4 tiles on both axes
HasAutoDoorAtPosition(doors, worldPos) ==
  \E k \in 1..Len(doors) :
    /\ 10 * Abs(doors[k].x - worldPos.x) < 4 * TILE_SIZE
    /\ 10 * Abs(doors[k].y - worldPos.y) < 4 * TILE_SIZE

\* hasNearbyDoor(worldPos): a door closer than 1.5 tiles
HasNearbyDoor(doors, worldPos) ==
  \E k \in 1..Len(doors) :
    4 * DistSq(Vec(doors[k].x, doors[k].y), worldPos) < 9 * TILE_SIZE * TILE_SIZE

\* new AutoDoor(x, y, direction, id) pushed to this.entities
NewAutoDoor(pos, direction, id) ==
  [AutoDoor(id, pos.x, pos.y, FALSE) EXCEPT !.direction = direction]

\* createAutoDoorBetweenRooms(room1, room2, direction)
CreateAutoDoorBetweenRooms(doors, room1, room2, direction) ==
  LET sharedPosition == FindSharedPositionBetweenRooms(room1, room2, direction)
  IN IF HasAutoDoorAtPosition(doors, sharedPosition) THEN doors
     ELSE Append(doors, NewAutoDoor(sharedPosition, direction,
                          <<"autodoor", room1.roomX, room1.roomY, direction>>))

\* shouldCreateDoor of createAutoDoorsForAllAdjacentRooms
ShouldCreateDoor(room, adjacentRoom) ==
  \/ room.roomX < adjacentRoom.roomX
  \/ room.roomX = adjacentRoom.roomX /\ room.roomY < adjacentRoom.roomY

RECURSIVE ForAdjacentDirections(_, _, _, _)
\* the loop of createAutoDoorsForAllAdjacentRooms over N, S, E, W
ForAdjacentDirections(doors, rooms, room, dirs) ==
  IF dirs = << >> THEN doors
  ELSE LET x == room.roomX + Offset(Head(dirs))[1]
           y == room.roomY + Offset(Head(dirs))[2]
       IN ForAdjacentDirections(
            IF HasRoom(rooms, x, y) /\ ShouldCreateDoor(room, GetRoom(rooms, x, y))
              THEN CreateAutoDoorBetweenRooms(doors, room, GetRoom(rooms, x, y), Head(dirs))
              ELSE doors,
            rooms, room, Tail(dirs))

\* createAutoDoorsForAllAdjacentRooms(room)
CreateAutoDoorsForAllAdjacentRooms(doors, rooms, room) ==
  ForAdjacentDirections(doors, rooms, room, <<"N", "S", "E", "W">>)

\* the exit of a side of the room, in tiles of the room
ExitPosition(room, direction) ==
  LET w == room.width \div TILE_SIZE
      h == room.height \div TILE_SIZE
  IN CASE direction = "N" -> <<w \div 2, 0>>
       [] direction = "S" -> <<w \div 2, h - 1>>
       [] direction = "E" -> <<w - 1, h \div 2>>
       [] direction = "W" -> <<0, h \div 2>>

RECURSIVE ForRoomExits(_, _, _, _)
\* the loop of createAutoDoorsFromRoomExits over the exits of the room, with
\* createTraditionalAutoDoor
ForRoomExits(doors, rooms, room, dirs) ==
  IF dirs = << >> THEN doors
  ELSE LET direction == Head(dirs)
           exitPos == ExitPosition(room, direction)
           worldPos == Vec(room.worldX + exitPos[1] * TILE_SIZE,
                           room.worldY + exitPos[2] * TILE_SIZE)
           adjacent == HasRoom(rooms, room.roomX + Offset(direction)[1],
                                      room.roomY + Offset(direction)[2])
       IN ForRoomExits(
            IF direction \in room.exits /\ adjacent /\ ~HasNearbyDoor(doors, worldPos)
              THEN Append(doors, NewAutoDoor(worldPos, direction,
                     <<"autodoor", "traditional", room.roomX, room.roomY, direction>>))
              ELSE doors,
            rooms, room, Tail(dirs))

\* createAutoDoorsFromRoomExits(room)
CreateAutoDoorsFromRoomExits(doors, rooms, room) ==
  ForRoomExits(doors, rooms, room, <<"N", "E", "S", "W">>)

\* createAutoDoorsFromExits(room)
CreateAutoDoorsFromExits(doors, rooms, room) ==
  CreateAutoDoorsFromRoomExits(
    CreateAutoDoorsForAllAdjacentRooms(doors, rooms, room), rooms, room)

RECURSIVE DoorsOfRooms(_, _, _)
\* generateLevel: createEntitiesForRoom for the start room, the first of the
\* map, then for the other rooms in the order of the map.  The doors of a
\* room are computed before the next room is looked at.
DoorsOfRooms(doors, rooms, i) ==
  IF i > Len(rooms) THEN doors
  ELSE CHOOSE all \in { DoorsOfRooms(d, rooms, i + 1) :
                          d \in {CreateAutoDoorsFromExits(doors, rooms, rooms[i])} } : TRUE

\* generateLevel(n, seed).  createEntitiesForRoom(this.worldManager.startRoom)
\* throws on a null start room and the catch block returns false, the
\* entities cleared; else every room gets its doors.
GenerateLevel(n, seed) ==
  /\ levelNumber' = n
  /\ \E w \in {Initialize(W, catalog, seed, n)} :
       /\ W' = w
       /\ genResult' = IF w.startRoom THEN "ok" ELSE "failed"
       /\ autoDoors' = IF w.startRoom THEN DoorsOfRooms(<< >>, w.rooms, 1) ELSE << >>
       /\ \/ remembered = NoCall /\ remembered' = [n |-> n, seed |-> seed, rooms |-> w.rooms]
                                 /\ between' = FALSE
          \/ /\ remembered' = remembered
             /\ between' = (between \/ (remembered # NoCall
                                         /\ <<n, seed>> # <<remembered.n, remembered.seed>>))
  /\ UNCHANGED <<catalog, tickVars, pureVars, doorVars, timeVars>>

NextGen == \E n \in Levels, seed \in Seeds : GenerateLevel(n, seed)

SpecGen == InitGen /\ [][NextGen]_vars

\* the grid cell of the room that created the door (the id of a door of
\* createTraditionalAutoDoor has one piece more), and the cell behind the door
DoorRoom(door) ==
  IF Len(door.id) = 5 THEN <<door.id[3], door.id[4]>>
  ELSE <<door.id[2], door.id[3]>>

DoorOther(door) ==
  <<DoorRoom(door)[1] + Offset(door.direction)[1],
    DoorRoom(door)[2] + Offset(door.direction)[2]>>

\* the doors between the rooms of two grid cells
DoorsBetween(doors, a, b) ==
  { k \in 1..Len(doors) : {DoorRoom(doors[k]), DoorOther(doors[k])} = {a, b} }

\* of two grid cells, the one with the lower coordinates
LowerCell(a, b) == IF a[1] < b[1] \/ (a[1] = b[1] /\ a[2] < b[2]) THEN a ELSE b

AdjacentPairs(rooms) ==
  { p \in (1..Len(rooms)) \X (1..Len(rooms)) :
      p[1] < p[2] /\ GridAdjacent(rooms[p[1]], rooms[p[2]]) }

Cell(room) == <<room.roomX, room.roomY>>

\* C19: after a level is built, every pair of grid-adjacent rooms has
\* exactly one AutoDoor between them, and the room of the pair with the
\* lower coordinates created it
C19_OneDoorPerAdjacentPair ==
  genResult = "ok" =>
    \A p \in AdjacentPairs(W.rooms) :
      LET a == Cell(W.rooms[p[1]])
          b == Cell(W.rooms[p[2]])
          between2 == DoorsBetween(autoDoors, a, b)
      IN /\ Cardinality(between2) = 1
         /\ \A k \in between2 : DoorRoom(autoDoors[k]) = LowerCell(a, b)

(***************************************************************************)
(* laserPowerCell.js: the handler of the entry into the PLAYING state,     *)
(* with the entities generateLevel creates room by room.  The rooms are    *)
(* of templates without a collision mask (as the fallback templates), 4    *)
(* tiles wide and high: their collision map starts empty and the layout    *)
(* type of selectLayoutType is "details", which adds no wall.  A level is  *)
(* [entities, collision, threw]: this.entities, the set cells of the       *)
(* collision map of every room, and whether a step threw.                  *)
(***************************************************************************)
Prefab(type, pos, id) == [type |-> type, hasPos |-> TRUE, pos |-> pos, id |-> id]

\* a prefab whose pos field is missing in the template
PrefabWithoutPos(type, id) == [type |-> type, hasPos |-> FALSE, pos |-> <<0, 0>>, id |-> id]

EntryRoom(tile, roomX, prefabs) ==
  [id |-> tile.id, roomX |-> roomX, roomY |-> 0,
   worldX |-> roomX * 3 * TILE_SIZE, worldY |-> 0,
   width |-> tile.size[1] * TILE_SIZE, height |-> tile.size[2] * TILE_SIZE,
   tileWidth |-> tile.size[1], tileHeight |-> tile.size[2],
   exits |-> tile.exits, isExit |-> tile.exit, prefabs |-> prefabs]

Wall(pos) == [type |-> "AdvancedWall", x |-> pos.x, y |-> pos.y, destroyed |-> FALSE]

\* WorldRoom.localToWorld
LocalToWorld(room, cell) ==
  Vec(room.worldX + cell[1] * TILE_SIZE, room.worldY + cell[2] * TILE_SIZE)

\* the AutoDoor entities of the list
DoorsIn(ents) == SelectSeq(ents, LAMBDA e : e.type = "AutoDoor")

\* hasWallAtPosition(worldPos): a wall closer than 0.4 tiles on both axes
HasWallAtPosition(ents, worldPos) ==
  \E k \in 1..Len(ents) :
    /\ ents[k].type = "AdvancedWall" /\ ~ents[k].destroyed
    /\ 10 * Abs(ents[k].x - worldPos.x) < 4 * TILE_SIZE
    /\ 10 * Abs(ents[k].y - worldPos.y) < 4 * TILE_SIZE

\* removeAllWallsAtPosition for the positions of new doors: the walls
\* closer than 0.6 tiles are marked destroyed and stay in the list until
\* the cleanup of a later frame
RemoveAllWallsAtPositions(ents, newDoors) ==
  [k \in 1..Len(ents) |->
     IF /\ ents[k].type = "AdvancedWall"
        /\ \E d \in 1..Len(newDoors) :
             100 * DistSq(Vec(ents[k].x, ents[k].y), Vec(newDoors[d].x, newDoors[d].y))
               < 36 * TILE_SIZE * TILE_SIZE
       THEN [ents[k] EXCEPT !.destroyed = TRUE]
       ELSE ents[k]]

\* the cells of room k that the creation of the new doors clears: the cell
\* of the door in the room that created it and, for a door of
\* createAutoDoorBetweenRooms, in the room behind it
ClearedCells(rooms, k, newDoors) ==
  { <<(newDoors[d].x - rooms[k].worldX) \div TILE_SIZE,
      (newDoors[d].y - rooms[k].worldY) \div TILE_SIZE>> :
      d \in { d \in 1..Len(newDoors) :
                \/ <<rooms[k].roomX, rooms[k].roomY>> = <<newDoors[d].id[Len(newDoors[d].id) - 2],
                                                          newDoors[d].id[Len(newDoors[d].id) - 1]>>
                \/ /\ Len(newDoors[d].id) = 4
                   /\ <<rooms[k].roomX, rooms[k].roomY>>
                        = <<newDoors[d].id[2] + Offset(newDoors[d].direction)[1],
                            newDoors[d].id[3] + Offset(newDoors[d].direction)[2]>> } }

\* getRoomEdgeTiles(room): the top row, the bottom row, the left and the
\* right column between them, each tile with the side it is on
EdgeTiles(room) ==
  [x \in 1..room.tileWidth |-> [cell |-> <<x - 1, 0>>, edge |-> "N"]]
    \o [x \in 1..room.tileWidth |-> [cell |-> <<x - 1, room.tileHeight - 1>>, edge |-> "S"]]
    \o [y \in 1..(room.tileHeight - 2) |-> [cell |-> <<0, y>>, edge |-> "W"]]
    \o [y \in 1..(room.tileHeight - 2) |-> [cell |-> <<room.tileWidth - 1, y>>, edge |-> "E"]]

\* isSharedEdgeTile(room, edgeTile)
IsSharedEdgeTile(rooms, room, edgeTile) ==
  LET x == room.roomX + Offset(edgeTile.edge)[1]
      y == room.roomY + Offset(edgeTile.edge)[2]
  IN /\ HasRoom(rooms, x, y)
     /\ ContainsWorldPosition(GetRoom(rooms, x, y), LocalToWorld(room, edgeTile.cell))
     /\ ~ShouldCreateDoor(room, GetRoom(rooms, x, y))

\* createWallsForRoomEdges(room): the edge tiles that get a wall.  The
\* tiles of one room are a tile apart, so a wall of this call never stands
\* at the position of another tile of the call.
NewEdgeTiles(ents, rooms, room, cells) ==
  SelectSeq(EdgeTiles(room),
            LAMBDA t : /\ ~IsSharedEdgeTile(rooms, room, t)
                       /\ ~HasAutoDoorAtPosition(DoorsIn(ents), LocalToWorld(room, t.cell))
                       /\ ~HasWallAtPosition(ents, LocalToWorld(room, t.cell))
                       /\ t.cell \notin cells)

\* createEntity(data, worldPos): the factory of the type, a negative
\* coordinate replaced by 0
CreateEntity(data, worldPos) ==
  [type |-> data.type, x |-> Max(0, worldPos.x), y |-> Max(0, worldPos.y), id |-> data.id]

RECURSIVE CreatePrefabs(_, _, _, _)
\* the loop of createEntitiesForRoom over the prefabs of the room: the read
\* of pos[0] throws for a prefab without pos; a prefab outside the room or
\* on a set cell of the collision map is skipped
CreatePrefabs(ents, room, cells, k) ==
  IF k > Len(room.prefabs) THEN [threw |-> FALSE, entities |-> ents]
  ELSE LET data == room.prefabs[k]
       IN IF ~data.hasPos THEN [threw |-> TRUE, entities |-> ents]
          ELSE IF \/ data.pos[1] < 0 \/ data.pos[1] >= room.tileWidth
                  \/ data.pos[2] < 0 \/ data.pos[2] >= room.tileHeight
                  \/ data.pos \in cells
            THEN CreatePrefabs(ents, room, cells, k + 1)
          ELSE CreatePrefabs(Append(ents, CreateEntity(data, LocalToWorld(room, data.pos))),
                             room, cells, k + 1)

\* the doors createAutoDoorsFromExits(room) adds to the doors of the level
NewDoorsFromExits(ents, rooms, room) ==
  CHOOSE newDoors \in { SubSeq(after, Len(DoorsIn(ents)) + 1, Len(after)) :
                          after \in {CreateAutoDoorsFromExits(DoorsIn(ents), rooms, room)} } : TRUE

\* createEntitiesForRoom(room) after the doors: the walls at the new doors
\* are marked, the collision cells of the doors cleared, the edge walls and
\* then the prefabs created
CreateWallsAndPrefabs(lvl, rooms, i, newDoors) ==
  LET room == rooms[i]
      withDoors == RemoveAllWallsAtPositions(lvl.entities, newDoors) \o newDoors
      cleared == [k \in 1..Len(rooms) |-> lvl.collision[k] \ ClearedCells(rooms, k, newDoors)]
      edgeTiles == NewEdgeTiles(withDoors, rooms, room, cleared[i])
      withWalls == withDoors
                     \o [k \in 1..Len(edgeTiles) |-> Wall(LocalToWorld(room, edgeTiles[k].cell))]
      collision == [cleared EXCEPT ![i] = @ \cup { edgeTiles[k].cell : k \in 1..Len(edgeTiles) }]
      made == CreatePrefabs(withWalls, room, collision[i], 1)
  IN [entities |-> made.entities, collision |-> collision, threw |-> made.threw]

\* createEntitiesForRoom(room) for the i-th room of the map
CreateEntitiesForRoom(lvl, rooms, i) ==
  CHOOSE made \in { CreateWallsAndPrefabs(lvl, rooms, i, newDoors) :
                      newDoors \in {NewDoorsFromExits(lvl.entities, rooms, rooms[i])} } : TRUE

RECURSIVE CreateEntitiesForRooms(_, _, _)
\* generateLevel: the start room, then the other rooms of the map; a throw
\* ends the loop and leaves the entities created so far
CreateEntitiesForRooms(lvl, rooms, i) ==
  IF i > Len(rooms) \/ lvl.threw THEN lvl
  ELSE CreateEntitiesForRooms(CreateEntitiesForRoom(lvl, rooms, i), rooms, i + 1)

\* the try block of generateLevel after clearLevel: success is false when a
\* step threw.  createEntitiesForRoom(null) throws when there is no start
\* room
GenerateLevelEntities(rooms) ==
  LET lvl == CreateEntitiesForRooms(
               [entities |-> << >>, collision |-> [k \in 1..Len(rooms) |-> {}],
                threw |-> FALSE], rooms, 1)
  IN IF rooms = << >> THEN [success |-> FALSE, entities |-> << >>]
     ELSE [success |-> ~lvl.threw, entities |-> lvl.entities]

\* createEmergencyLevel: clearLevel, then a player and a cell
EmergencyEntities ==
  << CreateEntity([type |-> "Player", id |-> << >>], Vec(2 * TILE_SIZE, 2 * TILE_SIZE)),
     CreateEntity([type |-> "PowerCell", id |-> <<"cell1">>], Vec(6 * TILE_SIZE, 2 * TILE_SIZE)) >>

\* the handler of onStateChange(PLAYING): the emergency level is created
\* when the entity list is empty after generateLevel
OnEnterPlaying(rooms) ==
  LET made == GenerateLevelEntities(rooms)
  IN [success |-> made.success,
      entities |-> IF Len(made.entities) = 0 THEN EmergencyEntities ELSE made.entities]

EntryPrefabs ==
  { Prefab("Player", <<1, 2>>, <<"player">>),
    Prefab("LaserEmitter", <<1, 1>>, <<"emitter1">>),
    Prefab("PowerCell", <<2, 1>>, <<"cell1">>),
    Prefab("PowerCell", <<0, 0>>, <<"cell2">>),
    PrefabWithoutPos("Button", <<"btn1">>) }

EntryPrefabLists ==
  { << >> } \cup { <<a>> : a \in EntryPrefabs }
    \cup { <<a, b>> : a \in EntryPrefabs, b \in EntryPrefabs }

\* the maps of rooms the world manager hands to generateLevel: none (no
\* start room), the start room, or the start room and a room east of it
EntryWorlds ==
  { << >> }
    \cup { <<EntryRoom(FallbackTiles[1], 0, a)>> : a \in EntryPrefabLists }
    \cup { <<EntryRoom(FallbackTiles[1], 0, a), EntryRoom(FallbackTiles[2], 1, b)>> :
             a \in EntryPrefabLists, b \in EntryPrefabLists }

EntryCalls == [op : {"enterPlaying"}, rooms : EntryWorlds]

InitEntry ==
  /\ catalog = FallbackTiles /\ W = NewWorldManager /\ levelNumber = 1
  /\ genResult = "none" /\ remembered = NoCall /\ between = FALSE
  /\ autoDoors = << >>
  /\ InMenu
  /\ call \in EntryCalls /\ returned = NoResult

\* the game enters PLAYING and the handler runs to its end
EnterPlaying ==
  /\ call.op = "enterPlaying" /\ ~returned.done
  /\ \E r \in {OnEnterPlaying(call.rooms)} :
       returned' = [done |-> TRUE, success |-> r.success, entities |-> r.entities]
  /\ UNCHANGED <<call, genVars, tickVars, doorVars, timeVars>>

SpecEntry == InitEntry /\ [][EnterPlaying]_vars

Entered == call.op = "enterPlaying" /\ returned.done

\* C16: when generateLevel returned false, the entity list of the level is
\* that of the emergency level once the handler of the entry into PLAYING
\* has finished
C16_EmergencyLevelOnFailure ==
  (Entered /\ ~returned.success) => returned.entities = EmergencyEntities

\* C18: a tick of PLAYING in which a beam touches the player (the step that
\* takes a life) restarts the level, the player back at the start, and
\* leaves the game in the PLAYING state
C18_RestartOnLaserTouch ==
  [][lives' < lives => (gameState' = "playing" /\ player' = PlayerStart)]_vars


\* C20: after every update of the power manager (a tick since the emitters
\* last changed), every power cell of the level is powered exactly when the
\* powering lasers of its cell state, as the update left them, are not
\* empty.
C20_PoweredIffPoweringLasers ==
  quiet >= 1 =>
    \A c \in OfType(entities, "PowerCell") :
      /\ entities[c].id \in DOMAIN cellStates
      /\ entities[c].isPowered <=> (cellStates[entities[c].id].poweringLasers # << >>)

\* the powering lasers of the cell state under cellId hold laserId
ListedAsPowering(laserId, cellId) ==
  /\ cellId \in DOMAIN cellStates
  /\ \E j \in 1..Len(cellStates[cellId].poweringLasers) :
       cellStates[cellId].poweringLasers[j] = laserId

\* C21: after every update of the power manager, the connection of a laser
\* and a cell is connected exactly when the powering lasers of the cell, as
\* the update left them, hold the laser; a laser a cell lists has a
\* connected connection to it.
C21_ConnectedIffListed ==
  quiet >= 1 =>
    /\ \A k \in DOMAIN powerStates :
         powerStates[k].isConnected
           <=> ListedAsPowering(powerStates[k].laserId, powerStates[k].powerCellId)
    /\ \A cellId \in DOMAIN cellStates :
         \A j \in 1..Len(cellStates[cellId].poweringLasers) :
           LET k == ConnectionKey(cellStates[cellId].poweringLasers[j], cellId)
           IN k \in DOMAIN powerStates /\ powerStates[k].isConnected

\* C22: the trace phase of a tick (LaserSystem.update with its traces)
\* leaves every field of every entity as it found it: in every state in
\* which a tick can run, the entities after the trace phase are the entities
\* before it.
C22_TraceChangesNoEntity ==
  gameState = "playing" => LaserSystemUpdate(entities, levelRooms).entities = entities

(***************************************************************************)
(* The game over several levels: the keys of handleGlobalInput that leave  *)
(* the LEVEL_COMPLETE and the GAME_OVER state enter PLAYING, whose handler *)
(* generates a level.                                                      *)
(***************************************************************************)
MaxLevel == 2

\* Space in the LEVEL_COMPLETE state: gameData.levelNumber++ and
\* changeState(PLAYING), whose handler calls generateLevel(levelNumber)
\* (layout: the level it makes).  The handler does not touch the power
\* manager.
NextLevel(layout) ==
  /\ gameState = "levelComplete"
  /\ levelNumber < MaxLevel
  /\ levelNumber' = levelNumber + 1
  /\ gameState' = "playing"
  /\ LoadLevel(layout)
  /\ events' = {}
  /\ completionSignal' = FALSE /\ tickPre' = NoTick
  /\ quiet' = 0 /\ lost' = {}
  /\ UNCHANGED <<lives, laserStates, cellStates, powerStates,
                 catalog, W, genResult, remembered, between, autoDoors, pureVars, doorVars, timeVars>>

\* KeyR in the GAME_OVER state: the level number is 1 and the lives are 1
\* again and changeState(PLAYING) generates the level; the power manager
\* is not touched
RestartGame(layout) ==
  /\ gameState = "gameOver"
  /\ levelNumber' = 1
  /\ lives' = 1
  /\ gameState' = "playing"
  /\ LoadLevel(layout)
  /\ events' = {}
  /\ completionSignal' = FALSE /\ tickPre' = NoTick
  /\ quiet' = 0 /\ lost' = {}
  /\ UNCHANGED <<laserStates, cellStates, powerStates,
                 catalog, W, genResult, remembered, between, autoDoors, pureVars, doorVars, timeVars>>

\* the levels generateLevel makes after the first
LaterLayouts == { LevelSingle, LevelPair, LevelNoCells }

\* the emitters keep the direction they were built with
NextLevels ==
  \/ Tick
  \/ \E i \in 1..4, on \in BOOLEAN : SetActive(i, on)
  \/ \E layout \in LaterLayouts : RestartLevel(layout)
  \/ \E layout \in LaterLayouts : NextLevel(layout)
  \/ \E layout \in LaterLayouts : RestartGame(layout)

SpecLevels == InitTick /\ [][NextLevels]_vars

\* the ids of the entities of a type in the level
IdsOfType(type) == { entities[i].id : i \in OfType(entities, type) }

\* C23: from the first update of the power manager in a level on, the
\* power manager holds a laser state for the emitters of the level and for
\* nothing else, a cell state for the cells of the level and for nothing
\* else, and no connection of a laser or a cell that is not in the level.
C23_ManagerTracksTheLevel ==
  quiet >= 1 =>
    /\ DOMAIN laserStates = IdsOfType("LaserEmitter")
    /\ DOMAIN cellStates = IdsOfType("PowerCell")
    /\ \A k \in DOMAIN powerStates :
         /\ powerStates[k].laserId \in IdsOfType("LaserEmitter")
         /\ powerStates[k].powerCellId \in IdsOfType("PowerCell")

\* the cells ensureMinimumRooms takes as candidates in the level as it is:
\* in bounds, empty and next to a placed room
TopUpCandidates ==
  { pos \in { BoundsCells(W)[k] : k \in 1..Len(BoundsCells(W)) } :
      ~HasRoom(W.rooms, pos[1], pos[2]) /\ HasAdjacentRoom(W.rooms, pos[1], pos[2]) }

\* C24: a generated level with fewer than minRooms rooms has no candidate
\* cell left (in bounds, empty, next to a placed room) at which
\* generateRoomAt would place a room: the top-up pass does not stop while
\* the count is below minRooms and such a cell exists.
C24_TopUpUntilMinOrNoCandidate ==
  (genResult # "none" /\ Len(W.rooms) < W.levelConstraints.minRooms) =>
    \A pos \in TopUpCandidates : ~GenerateRoomAt(W, catalog, pos[1], pos[2]).ok

\* C25: in a generated level no room at the grid position (0, 0), the
\* position of the start room, is flagged isExit.
C25_ExitIsNotStart ==
  genResult # "none" =>
    \A i \in 1..Len(W.rooms) :
      (W.rooms[i].roomX = 0 /\ W.rooms[i].roomY = 0) => ~W.rooms[i].isExit

\* an offset was applied to the rooms: the start room, created at (0, 0),
\* stands elsewhere
RoomsWereShifted ==
  \E i \in 1..Len(W.rooms) :
    /\ W.rooms[i].roomX = 0 /\ W.rooms[i].roomY = 0
    /\ W.rooms[i].worldX > 0 \/ W.rooms[i].worldY > 0

DOOR_ANIMATION_FRAMES == 30

\* AutoDoor.autoCloseDelay, in milliseconds
AutoCloseDelay == 2000

\* autoDoor.activationDistance = TILE_SIZE * 3.5
ActivationDistance == (TILE_SIZE * 7) \div 2

\* an entity of the level as generateLevel leaves it: uid is the identity
\* of the object; a wall marked by safeRemoveEntity is destroyed, inactive
\* and carries shouldRemove; a door is as the AutoDoor constructor makes it
LevelEntity(uid, e) ==
  [uid |-> uid, type |-> e.type, x |-> e.x, y |-> e.y,
   active |-> ~(e.type = "AdvancedWall" /\ e.destroyed),
   destroyed |-> (e.type = "AdvancedWall" /\ e.destroyed),
   shouldRemove |-> (e.type = "AdvancedWall" /\ e.destroyed),
   explicitRemovalRequested |-> (e.type = "AdvancedWall" /\ e.destroyed),
   solid |-> e.type \in {"AdvancedWall", "AutoDoor"},
   isOpen |-> FALSE, isAnimating |-> FALSE,
   animationTimer |-> 0, animationDirection |-> 1,
   playerInRange |-> FALSE, autoCloseTimer |-> 0]

\* WorldRoom: the size of the room in tiles; the rooms carry no prefabs
WithTiles(rooms) ==
  [k \in 1..Len(rooms) |->
     rooms[k] @@ [tileWidth |-> rooms[k].width \div TILE_SIZE,
                  tileHeight |-> rooms[k].height \div TILE_SIZE,
                  prefabs |-> << >>]]

\* generateLevel for a map of rooms: the entities, the solid objects (each
\* wall and each door is pushed when it is created) and the cleanup
\* requested by the removal of a wall
LevelOf(rooms) ==
  CHOOSE lvl \in
    { [entities |-> [k \in 1..Len(made.entities) |-> LevelEntity(k, made.entities[k])],
       solidObjects |-> [k \in 1..Len(made.entities) |-> k],
       manualCleanupRequested |->
         \E k \in 1..Len(made.entities) :
           made.entities[k].type = "AdvancedWall" /\ made.entities[k].destroyed] :
      made \in {GenerateLevelEntities(WithTiles(rooms))} } : TRUE

\* the levels of the door model: the start room with a room east of it, and
\* a level of five rooms in which the creation of a door removed a wall
DoorLevels ==
  { LevelOf(<<EntryRoom(FallbackTiles[1], 0, << >>), EntryRoom(FallbackTiles[2], 1, << >>)>>),
    LevelOf(Initialize(NewWorldManager,
                       << Tile("straight", 6, 4, {"E", "W"}, FALSE, FALSE),
                          Tile("start", 4, 4, AllDirs, TRUE, FALSE),
                          Tile("exit", 4, 4, {"W"}, FALSE, TRUE) >>, 1690, 1).rooms) }

\* handleDoorSolidStateChange(door, isSolid) on the list of solid objects
HandleDoorSolidStateChange(solids, uid, isSolid) ==
  LET isInSolidObjects == \E k \in 1..Len(solids) : solids[k] = uid
  IN IF isSolid /\ ~isInSolidObjects THEN Append(solids, uid)
     ELSE IF ~isSolid /\ isInSolidObjects
       THEN SelectSeq(solids, LAMBDA u : u # uid)
     ELSE solids

\* AutoDoor.open(): Door.open() and then the callback
AutoDoorOpen(st) ==
  IF st.door.isOpen \/ st.door.isAnimating THEN st
  ELSE [door |-> [st.door EXCEPT !.isAnimating = TRUE, !.animationDirection = 1,
                                 !.animationTimer = 0],
        solids |-> HandleDoorSolidStateChange(st.solids, st.door.uid, FALSE)]

\* AutoDoor.close(): Door.close() and then the callback
AutoDoorClose(st) ==
  IF ~st.door.isOpen \/ st.door.isAnimating THEN st
  ELSE [door |-> [st.door EXCEPT !.isAnimating = TRUE, !.animationDirection = -1,
                                 !.animationTimer = DOOR_ANIMATION_FRAMES],
        solids |-> HandleDoorSolidStateChange(st.solids, st.door.uid, TRUE)]

\* Door.update(deltaTime): one frame of the animation
DoorUpdate(d) ==
  IF ~d.isAnimating THEN d
  ELSE LET t == d.animationTimer + d.animationDirection
       IN IF t >= DOOR_ANIMATION_FRAMES
            THEN [d EXCEPT !.isAnimating = FALSE, !.isOpen = TRUE, !.solid = FALSE,
                           !.animationTimer = DOOR_ANIMATION_FRAMES]
          ELSE IF t <= 0
            THEN [d EXCEPT !.isAnimating = FALSE, !.isOpen = FALSE, !.solid = TRUE,
                           !.animationTimer = 0]
          ELSE [d EXCEPT !.animationTimer = t]

\* AutoDoor.update(deltaTime): the callback runs when solid changed
AutoDoorUpdate(st) ==
  LET d == DoorUpdate(st.door)
  IN [door |-> d,
      solids |-> IF d.solid # st.door.solid
                   THEN HandleDoorSolidStateChange(st.solids, d.uid, d.solid)
                   ELSE st.solids]

\* AutoDoor.isPlayerInRange(playerPos): the box test, then the distance
\* from the centre of the door
IsPlayerInRange(d, playerPos) ==
  LET doorCenter == GetCenter(d)
      quickDistance == ActivationDistance + TILE_SIZE
  IN /\ Abs(doorCenter.x - playerPos.x) <= quickDistance
     /\ Abs(doorCenter.y - playerPos.y) <= quickDistance
     /\ DistSq(doorCenter, playerPos) <= ActivationDistance * ActivationDistance

\* the end of updateWithPlayer: the timer of a door that stands open with
\* the player out of range
AutoCloseStep(st, deltaTime) ==
  IF ~st.door.playerInRange /\ st.door.isOpen /\ ~st.door.isAnimating
    THEN IF st.door.autoCloseTimer + deltaTime >= AutoCloseDelay
           THEN [AutoDoorClose(st) EXCEPT !.door.autoCloseTimer = 0]
           ELSE [st EXCEPT !.door.autoCloseTimer = @ + deltaTime]
    ELSE st

\* AutoDoor.updateWithPlayer(deltaTime, playerPos)
UpdateWithPlayer(st, deltaTime, playerPos) ==
  LET updated == AutoDoorUpdate(st)
      wasInRange == updated.door.playerInRange
      inRange == IsPlayerInRange(updated.door, playerPos)
      seen == [updated EXCEPT !.door.playerInRange = inRange]
      opened == IF inRange /\ ~wasInRange /\ ~seen.door.isOpen
                  THEN [AutoDoorOpen(seen) EXCEPT !.door.autoCloseTimer = 0]
                  ELSE seen
      reset == IF inRange THEN [opened EXCEPT !.door.autoCloseTimer = 0] ELSE opened
  IN AutoCloseStep(reset, deltaTime)

RECURSIVE UpdateAllAutoDoors(_, _, _, _)
\* updateAllAutoDoors(deltaTime, playerPos) from the i-th entity on
UpdateAllAutoDoors(lvl, i, deltaTime, playerPos) ==
  IF i > Len(lvl.entities) THEN lvl
  ELSE IF lvl.entities[i].active /\ lvl.entities[i].type = "AutoDoor"
    THEN UpdateAllAutoDoors(
           CHOOSE next \in
             { [lvl EXCEPT !.entities[i] = st.door, !.solidObjects = st.solids] :
               st \in {UpdateWithPlayer([door |-> lvl.entities[i], solids |-> lvl.solidObjects],
                                        deltaTime, playerPos)} } : TRUE,
           i + 1, deltaTime, playerPos)
  ELSE UpdateAllAutoDoors(lvl, i + 1, deltaTime, playerPos)

\* rebuildSolidObjectsArray()
RebuildSolidObjectsArray(ents) ==
  LET kept == SelectSeq(ents, LAMBDA e : /\ ~e.destroyed /\ e.active /\ e.solid
                                         /\ (IsDoor(e) => ~e.isOpen))
  IN [k \in 1..Len(kept) |-> kept[k].uid]

\* cleanupDestroyedEntities(): nothing without a request; the entities
\* that are destroyed, inactive and marked are dropped, a Player is kept
\* whatever it carries, and the solid
\* objects are rebuilt when one was dropped
CleanupDestroyedEntities(lvl) ==
  IF ~lvl.manualCleanupRequested THEN lvl
  ELSE LET entitiesToKeep ==
             SelectSeq(lvl.entities,
                       LAMBDA e : \/ e.type = "Player"
                                  \/ ~(~e.active /\ e.destroyed /\ e.shouldRemove))
       IN [entities |-> entitiesToKeep,
           solidObjects |-> IF Len(entitiesToKeep) < Len(lvl.entities)
                              THEN RebuildSolidObjectsArray(entitiesToKeep)
                              ELSE lvl.solidObjects,
           manualCleanupRequested |-> FALSE]

\* updateRoomEntities(deltaTime): the doors, then the cleanup; the walls
\* have nothing to update
UpdateRoomEntities(lvl, deltaTime, playerPos) ==
  CleanupDestroyedEntities(UpdateAllAutoDoors(lvl, 1, deltaTime, playerPos))

\* the first door of the level
FirstDoor == entities[CHOOSE i \in 1..Len(entities) :
                        /\ entities[i].type = "AutoDoor"
                        /\ \A j \in 1..(i - 1) : entities[j].type # "AutoDoor"]

\* where the player stands at the end of a frame: on the tile of the first
\* door, or seven tiles east of it and out of its range
DoorSpots == { Vec(FirstDoor.x, FirstDoor.y), Vec(FirstDoor.x + 7 * TILE_SIZE, FirstDoor.y) }

\* the time since the last frame, in milliseconds
DeltaTimes == { 500, 1000 }

InitDoor ==
  /\ catalog = FallbackTiles /\ W = NewWorldManager /\ levelNumber = 1
  /\ genResult = "none" /\ remembered = NoCall /\ between = FALSE
  /\ autoDoors = << >>
  /\ gameState = "playing" /\ lives = 1
  /\ levelRooms = << >> /\ levelComplete = FALSE
  /\ \E lvl \in DoorLevels :
       /\ entities = lvl.entities
       /\ solidObjects = lvl.solidObjects
       /\ manualCleanupRequested = lvl.manualCleanupRequested
  /\ player = Vec(FirstDoor.x + 7 * TILE_SIZE, FirstDoor.y)
  /\ frames = 0
  /\ laserStates = EmptyMap /\ cellStates = EmptyMap /\ powerStates = EmptyMap
  /\ events = {} /\ completionSignal = FALSE
  /\ tickPre = NoTick /\ quiet = 0 /\ lost = {}
  /\ NoConnection
  /\ Idle

\* a frame of updatePlaying: levelManager.update(deltaTime) with the player
\* where the last frame left it, then the player moves
DoorTick(spot, deltaTime) ==
  /\ gameState = "playing"
  /\ \E lvl \in {UpdateRoomEntities([entities |-> entities, solidObjects |-> solidObjects,
                                     manualCleanupRequested |-> manualCleanupRequested],
                                    deltaTime, player)} :
       /\ entities' = lvl.entities
       /\ solidObjects' = lvl.solidObjects
       /\ manualCleanupRequested' = lvl.manualCleanupRequested
  /\ player' = spot
  /\ frames' = IF frames = 1 THEN 2 ELSE 1
  /\ UNCHANGED <<gameState, lives, levelRooms, levelComplete, laserStates, cellStates,
                 powerStates, events, completionSignal, tickPre, quiet, lost,
                 genVars, pureVars, timeVars>>

NextDoor == \E spot \in DoorSpots, deltaTime \in DeltaTimes : DoorTick(spot, deltaTime)

SpecDoor == InitDoor /\ [][NextDoor]_vars

\* the entities that are solid and active and are not open doors
SolidActiveEntities ==
  { entities[k].uid : k \in { k \in 1..Len(entities) :
                                /\ entities[k].solid /\ entities[k].active
                                /\ ~(IsDoor(entities[k]) /\ entities[k].isOpen) } }

\* C27: at the end of every frame the list of solid objects holds exactly
\* the entities that are solid and active, without the doors that are open
C27_SolidObjectsAreTheSolidEntities ==
  frames # 0 => /\ { solidObjects[k] : k \in 1..Len(solidObjects) } = SolidActiveEntities
                 /\ Len(solidObjects) = Cardinality(SolidActiveEntities)

\* a frame of the game loop ran: every frame changes frames, and only a
\* frame does
FrameRuns == gameState = "playing" /\ frames' = IF frames = 1 THEN 2 ELSE 1

\* requestAnimationFrame calls the game loop again at the end of every
\* frame: frames keep running
SpecDoorLive == SpecDoor /\ WF_frames(FrameRuns)

\* the player stands within the activation distance of the first door
InRangeOfFirstDoor == IsPlayerInRange(FirstDoor, player)

\* C30: when the player stays within the activation distance of a door from
\* some frame on, the door becomes open (isOpen, not solid) and stays open,
\* whatever its animation was when the player came into range
C30_DoorOpensForPlayerInRange ==
  (<>[]InRangeOfFirstDoor) => (<>[](FirstDoor.isOpen /\ ~FirstDoor.solid))

\* generateLevel after worldManager.initialize: the entities and the
\* collision maps of the rooms of the world, room by room
BuiltLevel ==
  CreateEntitiesForRooms([entities |-> << >>,
                          collision |-> [k \in 1..Len(W.rooms) |-> {}],
                          threw |-> FALSE], WithTiles(W.rooms), 1)

\* an active wall of the level stands on the tile of the door: their
\* squares of one tile meet
WallOnDoorTile(lvl, door) ==
  \E j \in 1..Len(lvl.entities) :
    /\ lvl.entities[j].type = "AdvancedWall" /\ ~lvl.entities[j].destroyed
    /\ Abs(lvl.entities[j].x - door.x) < TILE_SIZE
    /\ Abs(lvl.entities[j].y - door.y) < TILE_SIZE

\* the collision map of a room that shares the boundary of the door is set
\* at the cell of the door (room.worldToLocal of its position)
CollisionOnDoorTile(lvl, door) ==
  \E k \in 1..Len(W.rooms) :
    /\ Cell(W.rooms[k]) \in {DoorRoom(door), DoorOther(door)}
    /\ <<WorldToLocal(W.rooms[k], door).x, WorldToLocal(W.rooms[k], door).y>> \in lvl.collision[k]

\* C28: after a level is built no active wall stands on the tile of an
\* AutoDoor, and the collision map is clear at that tile in the two rooms
\* that share the boundary
C28_DoorTileUnobstructed ==
  genResult = "ok" =>
    \A lvl \in {BuiltLevel} :
      \A i \in 1..Len(lvl.entities) :
        lvl.entities[i].type = "AutoDoor"
          => /\ ~WallOnDoorTile(lvl, lvl.entities[i])
             /\ ~CollisionOnDoorTile(lvl, lvl.entities[i])

(***************************************************************************)
(* dynamicLevel.js LevelManager.restartLevel, the restart of the level     *)
(* that is played.  call counts the restarts; remembered is the level the  *)
(* last restart replaced.                                                  *)
(***************************************************************************)
MaxRestarts == 2

\* Math.floor(Math.random() * 10000): some of its 10000 values
RandomOffsets == { 0, 2, 8, 1689 }

Restarts == IF call.op = "restartLevel" THEN call.restarts ELSE 0

\* restartLevel(): generateLevel(this.levelNumber, currentSeed +
\* Math.floor(Math.random() * 10000)), offset being the random number
LevelManagerRestartLevel(offset) ==
  /\ genResult # "none"
  /\ Restarts < MaxRestarts
  /\ \E w \in {Initialize(W, catalog, W.seed + offset, levelNumber)} :
       /\ W' = w
       /\ genResult' = IF w.startRoom THEN "ok" ELSE "failed"
       /\ autoDoors' = IF w.startRoom THEN DoorsOfRooms(<< >>, w.rooms, 1) ELSE << >>
  /\ remembered' = [n |-> levelNumber, seed |-> W.seed, rooms |-> W.rooms]
  /\ between' = (offset # 0)
  /\ call' = [op |-> "restartLevel", restarts |-> Restarts + 1]
  /\ UNCHANGED <<catalog, levelNumber, tickVars, returned, doorVars, timeVars>>

\* the first level of a game, then its restarts
NextRestart ==
  \/ \E n \in Levels, seed \in Seeds : genResult = "none" /\ GenerateLevel(n, seed)
  \/ \E offset \in RandomOffsets : LevelManagerRestartLevel(offset)

SpecRestart == InitGen /\ [][NextRestart]_vars

\* C29: after restartLevel the room graph (number of rooms, templates,
\* positions) is that of the level before the restart
C29_RestartReplaysTheLevel ==
  call.op = "restartLevel" =>
    /\ Len(W.rooms) = Len(remembered.rooms)
    /\ RoomGraph(W.rooms) = RoomGraph(remembered.rooms)

(***************************************************************************)
(* The ids of the entities of a level.  createEntity gives an entity the   *)
(* id of its prefab; a room holds the prefabs of its template.             *)
(***************************************************************************)

\* the prefabs of the templates: "straight" holds an emitter and a cell,
\* "start" the player, the other templates nothing
PrefabsOfTemplate(id) ==
  IF id = "straight"
    THEN << Prefab("LaserEmitter", <<1, 1>>, <<"emitter1">>),
            Prefab("PowerCell", <<2, 1>>, <<"cell1">>) >>
  ELSE IF id = "start" THEN << Prefab("Player", <<1, 2>>, <<"player_start">>) >>
  ELSE << >>

\* WorldRoom: the room with the size and the prefabs of its template
WithPrefabs(rooms) ==
  [k \in 1..Len(rooms) |->
     rooms[k] @@ [tileWidth |-> rooms[k].width \div TILE_SIZE,
                  tileHeight |-> rooms[k].height \div TILE_SIZE,
                  prefabs |-> PrefabsOfTemplate(rooms[k].id)]]

\* generateLevel after worldManager.initialize, the prefabs included
BuiltLevelWithPrefabs ==
  CreateEntitiesForRooms([entities |-> << >>,
                          collision |-> [k \in 1..Len(W.rooms) |-> {}],
                          threw |-> FALSE], WithPrefabs(W.rooms), 1)

\* the entities that carry an id given by the level: the doors and the
\* entities made of prefabs (a wall has the uid of its constructor)
WithLevelId(ents) == { k \in 1..Len(ents) : ents[k].type # "AdvancedWall" }

\* C31: within one generated level no two entities have the same id, the
\* entities made from one template in different rooms included
C31_EntityIdsUnique ==
  genResult = "ok" =>
    \A lvl \in {BuiltLevelWithPrefabs} :
      \A i \in WithLevelId(lvl.entities), j \in WithLevelId(lvl.entities) :
        (i # j /\ Len(lvl.entities[i].id) = Len(lvl.entities[j].id))
          => lvl.entities[i].id # lvl.entities[j].id

\* ---------------------------------------------------------------------
\* Pause and resume

\* Escape in the PLAYING state: handleGlobalInput changes the state to
\* PAUSED (no callback is registered for it); update had read the state
\* before, so updatePlaying still runs in this frame
Pause ==
  UpdatePlaying("paused")

\* Escape in the PAUSED state: changeState(PLAYING) runs the callback of
\* PLAYING, which calls generateLevel(levelNumber) with a seed of the clock
\* (layout: the level it makes); the power manager is not touched, and the
\* switch of update, on the state read before, does nothing more
Resume(layout) ==
  /\ gameState = "paused"
  /\ gameState' = "playing"
  /\ LoadLevel(layout)
  /\ events' = {}
  /\ completionSignal' = FALSE /\ tickPre' = NoTick
  /\ quiet' = 0 /\ lost' = {}
  /\ UNCHANGED <<lives, laserStates, cellStates, powerStates, genVars, pureVars, doorVars, timeVars>>

NextPause ==
  \/ Tick
  \/ \E i \in 1..4, on \in BOOLEAN : SetActive(i, on)
  \/ Pause
  \/ \E layout \in Layouts : Resume(layout)

SpecPause == InitTick /\ [][NextPause]_vars

\* C32: the step that resumes the paused game (PAUSED to PLAYING) leaves
\* the level as it was at pausing: no level is generated, the rooms, the
\* entity list, the position of the player and the power states are those
\* of the paused game
C32_ResumeLeavesTheLevel ==
  [][(gameState = "paused" /\ gameState' = "playing")
       => /\ levelRooms' = levelRooms
          /\ entities' = entities
          /\ player' = player
          /\ powerStates' = powerStates
          /\ cellStates' = cellStates
          /\ laserStates' = laserStates]_vars

\* C33: when the completion signal fired in a tick, the game is in the
\* LEVEL_COMPLETE state at the end of that tick; a beam found on the player
\* later in the tick does not replace it with GAME_OVER
C33_CompletionSurvivesTheTick ==
  completionSignal => gameState = "levelComplete"

\* the connections of the laser with this id, as LaserPowerState names them
ConnectionsOf(laserId) ==
  { k \in DOMAIN powerStates :
      /\ Len(powerStates[k].laserId) = Len(laserId)
      /\ powerStates[k].laserId = laserId }

\* C34: in the step in which the emitter L is rotated or switched off, every
\* connection of L is disconnected after the step and every connection of
\* another laser is as it was before
C34_OnlyTheLaserDisconnects ==
  [][\A i \in 1..4 :
       (Rotate(i) \/ SetActive(i, FALSE))
         => /\ DOMAIN powerStates' = DOMAIN powerStates
            /\ \A k \in ConnectionsOf(entities[i].id) : ~powerStates'[k].isConnected
            /\ \A k \in DOMAIN powerStates \ ConnectionsOf(entities[i].id) :
                 powerStates'[k] = powerStates[k]]_vars

\* ---------------------------------------------------------------------
\* The wall scan of a trace

WallCalls ==
  [op : {"checkWallCollision"}, start : TraceStarts, direction : DirectionVectors,
   entities : TraceEntities, rooms : TraceRooms]

InitWall ==
  /\ catalog = FallbackTiles /\ W = NewWorldManager /\ levelNumber = 1
  /\ genResult = "none" /\ remembered = NoCall /\ between = FALSE
  /\ autoDoors = << >>
  /\ InMenu
  /\ call \in WallCalls /\ returned = NoResult

\* collisionDetector.checkWallCollision(start, direction, maxDistance,
\* callback), the callback hasCollisionAt of a level with these entities and
\* rooms; step is the i of the loop at which it returned, 0 for null
WallScan ==
  /\ call.op = "checkWallCollision" /\ ~returned.done
  /\ \E r \in {CheckWallCollision(call.start, call.direction, call.entities, call.rooms)},
        i \in {FirstWallStep(call.start, call.direction, call.entities, call.rooms, 1)} :
       returned' = [done |-> TRUE, found |-> r.found, point |-> r.point, step |-> i]
  /\ UNCHANGED <<call, genVars, tickVars, doorVars, timeVars>>

SpecWall == InitWall /\ [][WallScan]_vars

\* C35: the point checkWallCollision returns for a wall, backed off one
\* step and snapped, is never farther from the start than the first
\* sampled point at which the wall predicate held
C35_WallPointNotPastTheWall ==
  (call.op = "checkWallCollision" /\ returned.done /\ returned.found)
    => Along(call, returned.point) <= StepSize * returned.step

\* C36: a template that the validation stored holds as many LaserEmitter
\* prefabs as PowerCell prefabs
C36_LasersMatchCells ==
  (Validated /\ returned.stored)
    => CountOfType(returned.tile, "LaserEmitter") = CountOfType(returned.tile, "PowerCell")

\* C37: in a template that the validation stored no prefab stands outside
\* the mask or on a wall cell of it
C37_NoPrefabInWalls ==
  (Validated /\ returned.stored)
    => \A k \in 1..Len(returned.tile.prefabs) :
         OnOpenCell(returned.tile, returned.tile.prefabs[k])

\* ---------------------------------------------------------------------
\* Removal of entities

\* the level of the removal model: the start room with the player and a
\* power cell, and a room east of it
CleanupLevel ==
  LevelOf(<<EntryRoom(FallbackTiles[1], 0,
                      << Prefab("Player", <<1, 2>>, <<"player_start">>),
                         Prefab("PowerCell", <<2, 1>>, <<"cell1">>) >>),
            EntryRoom(FallbackTiles[2], 1, << >>)>>)

\* the first entity of a type in the level, as the caller of a removal
\* holds it
FirstOfType(ents, type) ==
  CHOOSE k \in 1..Len(ents) :
    /\ ents[k].type = type
    /\ \A j \in 1..(k - 1) : ents[j].type # type

\* the entities removals are asked for: the player, a cell, a wall, a door
RemovalTargets ==
  { CleanupLevel.entities[FirstOfType(CleanupLevel.entities, type)].uid :
      type \in {"Player", "PowerCell", "AdvancedWall", "AutoDoor"} }

\* where the player stands at the end of a frame: on the tile of the door
\* of the level, or seven tiles east of it
CleanupSpots ==
  LET door == CleanupLevel.entities[FirstOfType(CleanupLevel.entities, "AutoDoor")]
  IN { Vec(door.x, door.y), Vec(door.x + 7 * TILE_SIZE, door.y) }

InitCleanup ==
  /\ catalog = FallbackTiles /\ W = NewWorldManager /\ levelNumber = 1
  /\ genResult = "none" /\ remembered = NoCall /\ between = FALSE
  /\ autoDoors = << >>
  /\ gameState = "playing" /\ lives = 1
  /\ levelRooms = << >> /\ levelComplete = FALSE
  /\ entities = CleanupLevel.entities
  /\ solidObjects = CleanupLevel.solidObjects
  /\ manualCleanupRequested = CleanupLevel.manualCleanupRequested
  /\ player \in CleanupSpots
  /\ laserStates = EmptyMap /\ cellStates = EmptyMap /\ powerStates = EmptyMap
  /\ events = {} /\ completionSignal = FALSE
  /\ tickPre = NoTick /\ quiet = 0 /\ lost = {}
  /\ frames = 0
  /\ NoConnection
  /\ Idle

\* a removal that takes the entity out of the list at once
SafeRemoveEntityAtOnce(lvl, k) ==
  [lvl EXCEPT !.entities = SubSeq(lvl.entities, 1, k - 1)
                             \o SubSeq(lvl.entities, k + 1, Len(lvl.entities))]

\* safeRemoveEntity(entity) on the entities and the cleanup flag: nothing
\* for a destroyed entity, a Player, and a door or wall without an explicit
\* request; else the entity is marked and the cleanup requested
SafeRemoveEntityIn(lvl, k) ==
  LET e == lvl.entities[k]
  IN IF e.destroyed THEN lvl
     ELSE IF e.type = "Player" THEN lvl
     ELSE IF e.type \in {"AutoDoor", "Door", "AdvancedWall"} /\ ~e.explicitRemovalRequested
       THEN lvl
     ELSE [lvl EXCEPT !.entities[k].destroyed = TRUE,
                      !.entities[k].active = FALSE,
                      !.entities[k].shouldRemove = TRUE,
                      !.manualCleanupRequested = TRUE]

\* requestExplicitRemoval(entity)
RequestExplicitRemovalIn(lvl, k) ==
  SafeRemoveEntityIn([lvl EXCEPT !.entities[k].explicitRemovalRequested = TRUE], k)

Level == [entities |-> entities, solidObjects |-> solidObjects,
          manualCleanupRequested |-> manualCleanupRequested]

SetLevel(lvl) ==
  /\ entities' = lvl.entities
  /\ solidObjects' = lvl.solidObjects
  /\ manualCleanupRequested' = lvl.manualCleanupRequested

\* a call of safeRemoveEntity (forceRemoveEntity is the same call) for an
\* entity of the list
SafeRemoveEntity(uid) ==
  /\ gameState = "playing"
  /\ \E k \in 1..Len(entities) :
       /\ entities[k].uid = uid
       /\ \E lvl \in {SafeRemoveEntityIn(Level, k)} : SetLevel(lvl)
  /\ UNCHANGED <<gameState, lives, levelRooms, levelComplete, player, laserStates,
                 cellStates, powerStates, events, completionSignal, tickPre, quiet,
                 lost, frames, genVars, pureVars, timeVars>>

\* a call of requestExplicitRemoval for an entity of the list
RequestExplicitRemoval(uid) ==
  /\ gameState = "playing"
  /\ \E k \in 1..Len(entities) :
       /\ entities[k].uid = uid
       /\ \E lvl \in {RequestExplicitRemovalIn(Level, k)} : SetLevel(lvl)
  /\ UNCHANGED <<gameState, lives, levelRooms, levelComplete, player, laserStates,
                 cellStates, powerStates, events, completionSignal, tickPre, quiet,
                 lost, frames, genVars, pureVars, timeVars>>

NextCleanup ==
  \/ \E spot \in CleanupSpots : DoorTick(spot, 1000)
  \/ \E uid \in RemovalTargets : SafeRemoveEntity(uid)
  \/ \E uid \in RemovalTargets : RequestExplicitRemoval(uid)

SpecCleanup == InitCleanup /\ [][NextCleanup]_vars

\* the entity with this uid is in the list
InList(ents, uid) == \E k \in 1..Len(ents) : ents[k].uid = uid

\* C38: an entity leaves the entity list only in a frame whose cleanup
\* sweep was requested, and only when it is no Player and is destroyed,
\* inactive and marked shouldRemove at the sweep; a step that only asks for
\* a removal leaves every entity in the list
C38_RemovedOnlyBySweep ==
  [][\A k \in 1..Len(entities) :
       ~InList(entities', entities[k].uid)
         => /\ frames' # frames
            /\ manualCleanupRequested
            /\ entities[k].type # "Player"
            /\ entities[k].destroyed /\ ~entities[k].active /\ entities[k].shouldRemove]_vars

\* a cell marked for removal has left the list in a sweep, the player still
\* in it
C38_Witness ==
  /\ frames # 0
  /\ Len(entities) < Len(CleanupLevel.entities)
  /\ \E k \in 1..Len(entities) : entities[k].type = "Player"
  /\ \A k \in 1..Len(entities) : entities[k].type # "PowerCell"

\* ---------------------------------------------------------------------
\* One connection under the clock

\* the last millisecond of the clock of the model
MaxNow == 5

\* the most connections counted
MaxConnections == 2

\* how far the clock moves between two calls
ClockSteps == {1, 2}

\* how far the clock may move between two reads of Date.now() in one call
ReadGaps == {0, 1}

\* LaserPowerState.connect() at the time t
LaserPowerStateConnect(ps, t) ==
  IF ~ps.isConnected
    THEN [ps EXCEPT !.isConnected = TRUE, !.lastConnectedTime = t,
                    !.connectionCount = @ + 1]
    ELSE ps

\* LaserPowerState.disconnect() at the time t
LaserPowerStateDisconnect(ps, t) ==
  IF ps.isConnected
    THEN [ps EXCEPT !.isConnected = FALSE,
                    !.totalPowerTime = @ + (t - ps.lastConnectedTime)]
    ELSE ps

\* LaserPowerState.updateTotalTime(): Date.now() is read twice, t1 for the
\* sum and t2 for lastConnectedTime
LaserPowerStateUpdateTotalTime(ps, t1, t2) ==
  IF ps.isConnected
    THEN [ps EXCEPT !.totalPowerTime = @ + (t1 - ps.lastConnectedTime),
                    !.lastConnectedTime = t2]
    ELSE ps

InitConnection ==
  /\ catalog = FallbackTiles /\ W = NewWorldManager /\ levelNumber = 1
  /\ genResult = "none" /\ remembered = NoCall /\ between = FALSE
  /\ autoDoors = << >>
  /\ InMenu
  /\ Idle

\* time passes between two calls
ClockRuns(d) ==
  /\ now + d <= MaxNow
  /\ now' = now + d
  /\ connectedTime' = IF connection.isConnected THEN connectedTime + d ELSE connectedTime
  /\ UNCHANGED <<connection, genVars, tickVars, pureVars, doorVars>>

\* powerState.connect(), as updatePowerCellStates calls it for a beam on
\* the cell
Connect ==
  /\ connection.isConnected \/ connection.connectionCount < MaxConnections
  /\ connection' = LaserPowerStateConnect(connection, now)
  /\ UNCHANGED <<now, connectedTime, genVars, tickVars, pureVars, doorVars>>

\* powerState.disconnect()
Disconnect ==
  /\ connection' = LaserPowerStateDisconnect(connection, now)
  /\ UNCHANGED <<now, connectedTime, genVars, tickVars, pureVars, doorVars>>

\* updateConnectionStates: powerState.updateTotalTime(), the clock moving
\* by gap between its two reads
UpdateTotalTime(gap) ==
  /\ now + gap <= MaxNow
  /\ connection.isConnected \/ gap = 0
  /\ connection' = LaserPowerStateUpdateTotalTime(connection, now, now + gap)
  /\ now' = now + gap
  /\ connectedTime' = IF connection.isConnected THEN connectedTime + gap
                      ELSE connectedTime
  /\ UNCHANGED <<genVars, tickVars, pureVars, doorVars>>

NextConnection ==
  \/ \E d \in ClockSteps : ClockRuns(d)
  \/ Connect
  \/ Disconnect
  \/ \E gap \in ReadGaps : UpdateTotalTime(gap)

SpecConnection == InitConnection /\ [][NextConnection]_vars

\* the time the connection was connected and that totalPowerTime has not
\* taken in yet: since lastConnectedTime, while connected
OpenInterval ==
  IF connection.isConnected THEN now - connection.lastConnectedTime ELSE 0

\* C39: connect on a connected connection and disconnect on a disconnected
\* one change nothing, and totalPowerTime, with the running interval since
\* lastConnectedTime, is the time that passed while the connection was
\* connected: no interval is counted twice or left out, no disconnected
\* time is counted
C39_TotalPowerTimeIsConnectedTime ==
  /\ [](connection.totalPowerTime + OpenInterval = connectedTime)
  /\ [][((Connect /\ connection.isConnected) \/ (Disconnect /\ ~connection.isConnected))
          => connection' = connection]_vars

\* the calls of generateRoomAt a generation may make at most: up to three
\* for the start room and for every room placed (one turn of the queue
\* each), and the rooms the top-up may miss
MaxAttempts(WM) ==
  3 * (1 + WM.generatedRooms) + WM.levelConstraints.minRooms

\* C40: a generation has ended after a bounded number of placement
\* attempts: no more calls of generateRoomAt than three per turn of the
\* queue, the turns no more than the rooms placed and the start room, plus
\* the top-up, and no more rooms placed than the cap of the level allows
C40_BoundedPlacementAttempts ==
  genResult # "none"
    => /\ W.attempts <= MaxAttempts(W)
       /\ W.generatedRooms <= W.levelConstraints.maxRooms - 1
       /\ W.attempts <= 3 * W.levelConstraints.maxRooms + W.levelConstraints.minRooms

\* a generation that made attempts in the queue phase and in the top-up,
\* some of which placed no room
C40_Witness ==
  /\ genResult # "none"
  /\ W.topUps > 0
  /\ W.attempts > W.generatedRooms

====
